---- MODULE Spec2Model ----
(***************************************************************************)
(* bnd-winmd / bindscrape: the driver pipeline                             *)
(*   run -> load_config -> generate_from_config                            *)
(*            (extract_partition x N -> build_type_registry ->             *)
(*             seed_registry_from_winmd x M -> typedef deduplication ->    *)
(*             emit_winmd) -> std::fs::write                               *)
(* Strings that the code inspects character by character (namespaces, on   *)
(* which seed_registry_from_winmd calls starts_with) are tuples of         *)
(* one-character strings.                                                  *)
(***************************************************************************)
EXTENDS Integers, Sequences, FiniteSets, TLC

VARIABLES
    pc,           \* the statement of run / generate_from_config to execute next
    status,       \* "running", "ok" (run returned Ok), "err" (returned Err),
                  \* "panic" (unwound from a panic), "crashed" (process killed)
    failure,      \* the step that failed and the loop position it failed at
    cfg,          \* run's `cfg`: <<>> before load_config, <<config>> after
    i,            \* position of the loop over cfg.partition / cfg.type_import
    partitions,   \* generate_from_config's `partitions`
    registry,     \* generate_from_config's `registry` (name -> namespace)
    winmd_bytes,  \* `winmd_bytes`: <<>> before emission, <<assembly>> after
    outfile,      \* what the file system holds at the output path
    call,         \* 1 for the first call of the pipeline, 2 for a repeated one
    prev,         \* input and results of the first call, once it is repeated
    xpc,          \* the statement of extract_partition to execute next
    xarg,         \* extract_partition's arguments `partition` and `base_dir`
    tu,           \* the parsed translation unit: the declarations sonar finds
    part,         \* extract_partition's five vectors, then the Partition
    temp_dir,     \* std::env::temp_dir() of the machine
    files,        \* the wrapper files that the temp directory holds
    runs,         \* per run of the tool: its position in extract_partition's
                  \* first statements, for the partition at hand
    AVAILABLE,    \* whether the process may create a Clang instance
    calls         \* per thread: its call of generate_from_config

dvars == <<pc, status, failure, cfg, i, partitions, registry, winmd_bytes,
           outfile, call, prev>>

xvars == <<xpc, xarg, tu, part>>

wvars == <<temp_dir, files, runs>>

cvars == <<AVAILABLE, calls>>

vars == <<pc, status, failure, cfg, i, partitions, registry, winmd_bytes,
          outfile, call, prev, xpc, xarg, tu, part,
          temp_dir, files, runs, AVAILABLE, calls>>

----------------------------------------------------------------------------
(* Bounds of the model *)

MaxPartitions == 3      \* [[partition]] entries of a configuration
MaxImports == 2         \* [[type_import]] entries of a configuration
WriteChunks == 2        \* write(2) calls that write_all needs for the bytes
TypeDepth == 1          \* nesting of pointers and arrays around a type
WordBits == 3           \* bits of u64 and i64 in the model
MaxWrapped == 2         \* partitions that one run extracts, in the wrapper model
MaxRounds == 2          \* calls of generate_from_config that one thread makes

----------------------------------------------------------------------------
(* Input domains *)

NsA == <<"A">>
NsB == <<"B">>
NsEa == <<"E", ".", "a">>
NsEb == <<"E", ".", "b">>
NsWx == <<"W", ".", "x">>

SeqsUpTo(S, n) == UNION {[1..k -> S] : k \in 0..n}

EmptyMap == [n \in {} |-> NsA]

\* What the C front-end reports for the in-scope declarations of a header.
\* Every header declares the function f(T) and the macro K; typedef.h holds
\* typedef int (*T)(int) and typedef int U.
Headers == {"api.h", "record.h", "typedef.h"}

CompareFunc ==
    [t |-> "Ptr", is_const |-> FALSE,
     pointee |-> [t |-> "FnPtr", return_type |-> [t |-> "I32"],
                  params |-> <<[t |-> "I32"]>>, calling_convention |-> "Cdecl"]]

TypedefT == [name |-> "T", underlying_type |-> CompareFunc]
TypedefU == [name |-> "U", underlying_type |-> [t |-> "I32"]]

Ast(h) ==
    [structs   |-> IF h = "record.h" THEN <<[name |-> "T"]>> ELSE <<>>,
     enums     |-> IF h = "record.h" THEN <<[name |-> "V"]>> ELSE <<>>,
     typedefs  |-> CASE h = "typedef.h" -> <<TypedefT, TypedefU>>
                     [] h = "api.h"     -> <<TypedefU>>
                     [] OTHER           -> <<>>,
     functions |-> <<[name |-> "f", params |-> <<"T">>]>>,
     constants |-> <<[name |-> "K"]>>]

LibA == <<"l", "i", "b", "a">>
LibB == <<"l", "i", "b", "b">>

LibraryOf(ns) == IF ns = NsA THEN LibA ELSE LibB

PartitionConfigs ==
    {[namespace |-> ns, library |-> LibraryOf(ns), headers |-> <<h>>] :
        ns \in {NsA, NsB}, h \in Headers}

\* The types an external .winmd holds, as (namespace, name).
ExternalWinmd(file) ==
    IF file = "ext1.winmd"
    THEN {[namespace |-> <<>>, name |-> "<Module>"],
          [namespace |-> NsEa, name |-> "T"],
          [namespace |-> NsEb, name |-> "T"]}
    ELSE {[namespace |-> NsWx, name |-> "Apis"],
          [namespace |-> NsWx, name |-> "T"],
          [namespace |-> NsEa, name |-> "U"]}

TypeImports ==
    {[winmd |-> "ext1.winmd", namespace |-> <<"E">>],
     [winmd |-> "ext2.winmd", namespace |-> <<"W">>]}

Overrides == {EmptyMap, "T" :> NsA}

Configs ==
    {[output              |-> [name |-> "out", file |-> "out.winmd"],
      partition           |-> ps,
      namespace_overrides |-> ov,
      type_import         |-> ti] :
        ps \in SeqsUpTo(PartitionConfigs, MaxPartitions),
        ov \in Overrides,
        ti \in SeqsUpTo(TypeImports, MaxImports)}

\* Every order in which reader::TypeIndex::types() may yield the types of a file.
Orders(S) ==
    {s \in [1..Cardinality(S) -> S] : \A a, b \in DOMAIN s : a # b => s[a] # s[b]}

Ext1Orders == Orders(ExternalWinmd("ext1.winmd"))
Ext2Orders == Orders(ExternalWinmd("ext2.winmd"))

Enumerations(file) == IF file = "ext1.winmd" THEN Ext1Orders ELSE Ext2Orders

\* The previously generated, complete file at the output path.
OldFile == [gen |-> "old", data |-> {}, written |-> WriteChunks]

NoFailure == [kind |-> "none", at |-> 0]
NoPrev == <<>>

----------------------------------------------------------------------------
(* TypeRegistry (model.rs) *)

register(reg, name, ns) ==
    IF name \in DOMAIN reg THEN reg ELSE reg @@ (name :> ns)

contains(reg, name) == name \in DOMAIN reg

namespace_for(reg, name, default_ns) ==
    IF name \in DOMAIN reg THEN reg[name] ELSE default_ns

----------------------------------------------------------------------------
(* extract.rs *)

\* Variant of extract_partition: the namespace field is filled from the
\* library of the partition.
extract_partition_library(pcfg) ==
    LET ast == Ast(pcfg.headers[1]) IN
    [namespace |-> pcfg.library,
     library   |-> pcfg.library,
     structs   |-> ast.structs,
     enums     |-> ast.enums,
     functions |-> ast.functions,
     typedefs  |-> ast.typedefs,
     constants |-> ast.constants]

\* Variant of extract_partition: the library field is filled from the
\* namespace of the partition.
extract_partition_namespace(pcfg) ==
    LET ast == Ast(pcfg.headers[1]) IN
    [namespace |-> pcfg.namespace,
     library   |-> pcfg.namespace,
     structs   |-> ast.structs,
     enums     |-> ast.enums,
     functions |-> ast.functions,
     typedefs  |-> ast.typedefs,
     constants |-> ast.constants]

\* extract_partition, after a successful parse: the in-scope declarations of
\* the translation unit, under the namespace and library of the partition.
extract_partition(pcfg) ==
    LET ast == Ast(pcfg.headers[1]) IN
    [namespace |-> pcfg.namespace,
     library   |-> pcfg.library,
     structs   |-> ast.structs,
     enums     |-> ast.enums,
     functions |-> ast.functions,
     typedefs  |-> ast.typedefs,
     constants |-> ast.constants]

\* namespace_overrides.get(name).unwrap_or(&partition.namespace)
override_or(ov, name, ns) == IF name \in DOMAIN ov THEN ov[name] ELSE ns

RECURSIVE register_decls(_, _, _, _)
register_decls(reg, decls, ns, ov) ==
    IF decls = <<>> THEN reg
    ELSE register_decls(
            register(reg, Head(decls).name, override_or(ov, Head(decls).name, ns)),
            Tail(decls), ns, ov)

register_partition(reg, p, ov) ==
    register_decls(
        register_decls(
            register_decls(reg, p.structs, p.namespace, ov),
            p.enums, p.namespace, ov),
        p.typedefs, p.namespace, ov)

RECURSIVE register_partitions(_, _, _)
register_partitions(reg, parts, ov) ==
    IF parts = <<>> THEN reg
    ELSE register_partitions(register_partition(reg, Head(parts), ov), Tail(parts), ov)

Reverse(s) == [k \in DOMAIN s |-> s[Len(s) + 1 - k]]

\* Variant of build_type_registry: the partitions are scanned last to first.
build_type_registry_reversed(parts, ov) ==
    register_partitions(EmptyMap, Reverse(parts), ov)

build_type_registry(parts, ov) == register_partitions(EmptyMap, parts, ov)

----------------------------------------------------------------------------
(* lib.rs *)

\* str::starts_with
starts_with(s, prefix) ==
    /\ Len(prefix) <= Len(s)
    /\ \A k \in 1..Len(prefix) : s[k] = prefix[k]

\* Variant of seed_registry_from_winmd: every type that passes the filters is
\* inserted, whether or not the name is taken.
RECURSIVE seed_registry_from_winmd_overwriting(_, _, _)
seed_registry_from_winmd_overwriting(reg, types, ns_filter) ==
    IF types = <<>> THEN reg
    ELSE LET td == Head(types) IN
         IF td.namespace = <<>> \/ td.name = "<Module>" \/ td.name = "Apis"
         THEN seed_registry_from_winmd_overwriting(reg, Tail(types), ns_filter)
         ELSE IF ~starts_with(td.namespace, ns_filter)
         THEN seed_registry_from_winmd_overwriting(reg, Tail(types), ns_filter)
         ELSE seed_registry_from_winmd_overwriting(
                  [n \in DOMAIN reg \cup {td.name} |->
                      IF n = td.name THEN td.namespace ELSE reg[n]],
                  Tail(types), ns_filter)

RECURSIVE seed_registry_from_winmd(_, _, _)
seed_registry_from_winmd(reg, types, ns_filter) ==
    IF types = <<>> THEN reg
    ELSE LET td == Head(types) IN
         IF td.namespace = <<>> \/ td.name = "<Module>" \/ td.name = "Apis"
         THEN seed_registry_from_winmd(reg, Tail(types), ns_filter)
         ELSE IF ~starts_with(td.namespace, ns_filter)
         THEN seed_registry_from_winmd(reg, Tail(types), ns_filter)
         ELSE IF ~contains(reg, td.name)
         THEN seed_registry_from_winmd(register(reg, td.name, td.namespace),
                                       Tail(types), ns_filter)
         ELSE seed_registry_from_winmd(reg, Tail(types), ns_filter)

\* Variant of retain_typedefs: the comparison is inverted.
retain_typedefs_inverted(p, reg) ==
    [p EXCEPT !.typedefs =
        SelectSeq(p.typedefs,
                  LAMBDA td : namespace_for(reg, td.name, p.namespace) # p.namespace)]

\* Variant of retain_typedefs: nothing is dropped.
retain_typedefs_all(p, reg) == p

\* partition.typedefs.retain(|td| namespace_for(td.name, ns) == ns)
retain_typedefs(p, reg) ==
    [p EXCEPT !.typedefs =
        SelectSeq(p.typedefs,
                  LAMBDA td : namespace_for(reg, td.name, p.namespace) = p.namespace)]

dedup_typedefs(parts, reg) == [k \in DOMAIN parts |-> retain_typedefs(parts[k], reg)]

----------------------------------------------------------------------------
(* emit.rs: the assembly as the set of its TypeDef rows *)

Range(s) == {s[k] : k \in DOMAIN s}

\* A typedef of a function pointer designates a delegate
is_delegate(ty) == ty.t = "FnPtr" \/ (ty.t = "Ptr" /\ ty.pointee.t = "FnPtr")

signature_of(ty) == IF ty.t = "FnPtr" THEN ty ELSE ty.pointee

invoke_method(fnptr) ==
    [name |-> "Invoke", params |-> fnptr.params, return_type |-> fnptr.return_type]

\* The marker a TypeDef extends
base_of(decl, kind) ==
    CASE kind = "struct"  -> "ValueType"
      [] kind = "enum"    -> "Enum"
      [] kind = "typedef" ->
            IF is_delegate(decl.underlying_type) THEN "MulticastDelegate"
            ELSE "ValueType"

type_row(ns, decl, kind) ==
    [namespace |-> ns, name |-> decl.name, kind |-> kind,
     base |-> base_of(decl, kind),
     methods |-> IF kind = "typedef" /\ is_delegate(decl.underlying_type)
                 THEN {invoke_method(signature_of(decl.underlying_type))}
                 ELSE {},
     fields |-> {}]

\* The TypeDef rows written for name: one per struct, enum and typedef of
\* that name that a partition holds
RECURSIVE typedefs_written(_, _)
typedefs_written(parts, name) ==
    IF parts = <<>> THEN 0
    ELSE Cardinality({k \in DOMAIN Head(parts).structs : Head(parts).structs[k].name = name})
         + Cardinality({k \in DOMAIN Head(parts).enums : Head(parts).enums[k].name = name})
         + Cardinality({k \in DOMAIN Head(parts).typedefs : Head(parts).typedefs[k].name = name})
         + typedefs_written(Tail(parts), name)

\* One method per function, with the resolved reference of each Named
\* parameter and the ImplMap scope; one literal field per constant.
apis_row(p, reg) ==
    [namespace |-> p.namespace, name |-> "Apis", kind |-> "apis",
     methods |-> {[name   |-> fn.name,
                   scope  |-> p.library,
                   params |-> [k \in DOMAIN fn.params |->
                                 <<namespace_for(reg, fn.params[k], p.namespace),
                                   fn.params[k]>>]] :
                  fn \in Range(p.functions)},
     fields  |-> {c.name : c \in Range(p.constants)}]

\* The ClassLayout row of a struct
class_layout(s) == [ClassSize |-> s.size, PackingSize |-> s.align]

partition_rows(p, reg) ==
    {type_row(p.namespace, s, "struct") : s \in Range(p.structs)}
    \cup {type_row(p.namespace, e, "enum") : e \in Range(p.enums)}
    \cup {type_row(p.namespace, td, "typedef") : td \in Range(p.typedefs)}
    \cup {apis_row(p, reg)}

emit_winmd(name, parts, reg) ==
    UNION {partition_rows(parts[k], reg) : k \in DOMAIN parts}

----------------------------------------------------------------------------
(* Option and Result values: None and Err are <<>>, Some(x) and Ok(x) <<x>> *)

None == <<>>
Some(x) == <<x>>
Err == <<>>
Ok(x) == <<x>>

unwrap_or(o, default) == IF o = None THEN default ELSE o[1]

----------------------------------------------------------------------------
(* std::path: a path is the tuple of its components, "/" being the root *)

is_absolute(p) == p # <<>> /\ p[1] = "/"

\* Path::join: an absolute argument replaces the path
join(base, p) == IF is_absolute(p) THEN p ELSE base \o p

\* Path::ends_with: whole components only
ends_with(p, child) ==
    /\ Len(child) <= Len(p)
    /\ \A k \in 1..Len(child) : p[Len(p) - Len(child) + k] = child[k]

----------------------------------------------------------------------------
(* CType, as extract.rs builds it *)

Prim(t) == [t |-> t]
Ptr(pointee, is_const) == [t |-> "Ptr", pointee |-> pointee, is_const |-> is_const]
Array(element, len) == [t |-> "Array", element |-> element, len |-> len]
Named(name) == [t |-> "Named", name |-> name]
FnPtr(return_type, params, calling_convention) ==
    [t |-> "FnPtr", return_type |-> return_type, params |-> params,
     calling_convention |-> calling_convention]

----------------------------------------------------------------------------
(* extract.rs: the type mapper *)

PrimitiveKinds ==
    {"Void", "Bool", "CharS", "SChar", "CharU", "UChar", "Short", "UShort",
     "Int", "UInt", "Long", "ULong", "LongLong", "ULongLong", "Float", "Double"}

\* Variant of map_clang_type_primitive: long has the width of an LP64 host.
map_clang_type_primitive_lp64(kind) ==
    CASE kind = "Void"               -> Prim("Void")
      [] kind = "Bool"               -> Prim("Bool")
      [] kind \in {"CharS", "SChar"} -> Prim("I8")
      [] kind \in {"CharU", "UChar"} -> Prim("U8")
      [] kind = "Short"              -> Prim("I16")
      [] kind = "UShort"             -> Prim("U16")
      [] kind = "Int"                -> Prim("I32")
      [] kind = "UInt"               -> Prim("U32")
      [] kind = "Long"               -> Prim("I64")
      [] kind = "ULong"              -> Prim("U64")
      [] kind = "LongLong"           -> Prim("I64")
      [] kind = "ULongLong"          -> Prim("U64")
      [] kind = "Float"              -> Prim("F32")
      [] kind = "Double"             -> Prim("F64")

\* The first fourteen arms of map_clang_type
map_clang_type_primitive(kind) ==
    CASE kind = "Void"               -> Prim("Void")
      [] kind = "Bool"               -> Prim("Bool")
      [] kind \in {"CharS", "SChar"} -> Prim("I8")
      [] kind \in {"CharU", "UChar"} -> Prim("U8")
      [] kind = "Short"              -> Prim("I16")
      [] kind = "UShort"             -> Prim("U16")
      [] kind = "Int"                -> Prim("I32")
      [] kind = "UInt"               -> Prim("U32")
      [] kind = "Long"               -> Prim("I32")
      [] kind = "ULong"              -> Prim("U32")
      [] kind = "LongLong"           -> Prim("I64")
      [] kind = "ULongLong"          -> Prim("U64")
      [] kind = "Float"              -> Prim("F32")
      [] kind = "Double"             -> Prim("F64")

\* The match on the name of a typedef declaration
map_typedef_name(name) ==
    CASE name \in {"int8_t", "__int8"}                 -> Prim("I8")
      [] name = "uint8_t"                              -> Prim("U8")
      [] name \in {"int16_t", "__int16"}               -> Prim("I16")
      [] name = "uint16_t"                             -> Prim("U16")
      [] name \in {"int32_t", "__int32"}               -> Prim("I32")
      [] name = "uint32_t"                             -> Prim("U32")
      [] name \in {"int64_t", "__int64"}               -> Prim("I64")
      [] name = "uint64_t"                             -> Prim("U64")
      [] name \in {"size_t", "uintptr_t"}              -> Prim("USize")
      [] name \in {"ssize_t", "intptr_t", "ptrdiff_t"} -> Prim("ISize")
      [] OTHER                                         -> Named(name)

\* Variant of map_calling_convention: every convention is Cdecl.
map_calling_convention_cdecl(cc) == "Cdecl"

map_calling_convention(cc) ==
    CASE cc = "Cdecl"    -> "Cdecl"
      [] cc = "Stdcall"  -> "Stdcall"
      [] cc = "Fastcall" -> "Fastcall"
      [] OTHER           -> "Cdecl"

\* .get_calling_convention().map(map_calling_convention).unwrap_or(Cdecl)
calling_convention_of(cc) ==
    IF cc = None THEN "Cdecl" ELSE map_calling_convention(cc[1])

RECURSIVE map_clang_type(_)
RECURSIVE map_argument_types(_)

\* Variant of map_argument_types: a parameter type that does not map
\* becomes Void.
map_argument_types_lenient(arg_types) ==
    Ok([k \in DOMAIN arg_types |->
           unwrap_or(map_clang_type(arg_types[k]), Prim("Void"))])

\* for at in &arg_types { params.push(map_clang_type(at)?) }
map_argument_types(arg_types) ==
    IF arg_types = <<>> THEN Ok(<<>>)
    ELSE LET first == map_clang_type(Head(arg_types))
             rest == map_argument_types(Tail(arg_types))
         IN IF first = Err \/ rest = Err THEN Err
            ELSE Ok(<<first[1]>> \o rest[1])

map_clang_type(ty) ==
    CASE ty.kind \in PrimitiveKinds -> Ok(map_clang_type_primitive(ty.kind))
      [] ty.kind = "Pointer" ->
            IF ty.pointee_type = None THEN Err
            ELSE LET pointee == ty.pointee_type[1]
                     is_const == pointee.is_const_qualified
                     inner == map_clang_type(pointee)
                 IN IF inner = Err THEN Err ELSE Ok(Ptr(inner[1], is_const))
      [] ty.kind = "ConstantArray" ->
            IF ty.element_type = None THEN Err
            ELSE LET len == unwrap_or(ty.size, 0)
                     inner == map_clang_type(ty.element_type[1])
                 IN IF inner = Err THEN Err ELSE Ok(Array(inner[1], len))
      [] ty.kind = "IncompleteArray" ->
            IF ty.element_type = None THEN Err
            ELSE LET inner == map_clang_type(ty.element_type[1])
                 IN IF inner = Err THEN Err ELSE Ok(Ptr(inner[1], FALSE))
      [] ty.kind = "Elaborated" ->
            IF ty.elaborated_type = None THEN Err
            ELSE map_clang_type(ty.elaborated_type[1])
      [] ty.kind = "Typedef" ->
            LET name == IF ty.declaration = None THEN ""
                        ELSE unwrap_or(ty.declaration[1].name, "")
            IN IF ty.declaration # None /\ name # ""
               THEN Ok(map_typedef_name(name))
               ELSE map_clang_type(ty.canonical_type)
      [] ty.kind \in {"Record", "Enum"} ->
            IF ty.declaration # None /\ ty.declaration[1].name # None
            THEN Ok(Named(ty.declaration[1].name[1]))
            ELSE Err
      [] ty.kind = "FunctionPrototype" ->
            IF ty.result_type = None THEN Err
            ELSE LET ret_ctype == map_clang_type(ty.result_type[1])
                     params == map_argument_types(unwrap_or(ty.argument_types, <<>>))
                     cc == calling_convention_of(ty.calling_convention)
                 IN IF ret_ctype = Err \/ params = Err THEN Err
                    ELSE Ok(FnPtr(ret_ctype[1], params[1], cc))
      [] ty.kind = "FunctionNoPrototype" ->
            Ok(FnPtr(Prim("Void"), <<>>, "Cdecl"))
      [] OTHER -> Err

----------------------------------------------------------------------------
(* extract.rs and config.rs: the scope filter *)

traverse_files(partition) ==
    IF partition.traverse = <<>> THEN partition.headers ELSE partition.traverse

\* Variant of should_emit_by_location: only the resolved path is compared.
should_emit_by_location_exact(entity, traverse, base_dir) ==
    IF entity.location = None THEN FALSE
    ELSE IF entity.location[1].file = None THEN FALSE
    ELSE LET file_path == entity.location[1].file[1] IN
         \E k \in DOMAIN traverse :
             LET tf == traverse[k]
                 abs_tf == IF is_absolute(tf) THEN tf ELSE join(base_dir, tf)
             IN file_path = abs_tf

should_emit_by_location(entity, traverse, base_dir) ==
    IF entity.location = None THEN FALSE
    ELSE IF entity.location[1].file = None THEN FALSE
    ELSE LET file_path == entity.location[1].file[1] IN
         \E k \in DOMAIN traverse :
             LET tf == traverse[k]
                 abs_tf == IF is_absolute(tf) THEN tf ELSE join(base_dir, tf)
             IN file_path = abs_tf \/ ends_with(file_path, tf)

should_emit(entity, traverse, base_dir) ==
    should_emit_by_location(entity, traverse, base_dir)

----------------------------------------------------------------------------
(* extract.rs: one declaration *)

is_field(child) == child.kind = "FieldDecl"

\* Variant of extract_field: the bit offset is recorded for every field.
extract_field_offset_always(child) ==
    IF child.type = None THEN Err
    ELSE LET ctype == map_clang_type(child.type[1]) IN
         IF ctype = Err THEN Err
         ELSE Ok([name            |-> unwrap_or(child.name, ""),
                  ty              |-> ctype[1],
                  bitfield_width  |-> IF child.is_bit_field
                                      THEN child.bit_field_width ELSE None,
                  bitfield_offset |-> child.offset_of_field])

\* One iteration of the loop over the FieldDecl children of a record.
extract_field(child) ==
    IF child.type = None THEN Err
    ELSE LET ctype == map_clang_type(child.type[1]) IN
         IF ctype = Err THEN Err
         ELSE Ok([name            |-> unwrap_or(child.name, ""),
                  ty              |-> ctype[1],
                  bitfield_width  |-> IF child.is_bit_field
                                      THEN child.bit_field_width ELSE None,
                  bitfield_offset |-> IF child.is_bit_field
                                      THEN child.offset_of_field ELSE None])

\* Variant of extract_struct: the alignment is recorded as the size.
extract_struct_size_as_align(decl) ==
    IF decl.entity.type = None THEN Err
    ELSE LET ty == decl.entity.type[1]
             size == unwrap_or(ty.sizeof, 0)
             children == SelectSeq(decl.entity.children, is_field)
         IN IF \E k \in DOMAIN children : extract_field(children[k]) = Err
            THEN Err
            ELSE Ok([name   |-> decl.name,
                     size   |-> size,
                     align  |-> size,
                     fields |-> [k \in DOMAIN children |->
                                    extract_field(children[k])[1]]])

extract_struct(decl) ==
    IF decl.entity.type = None THEN Err
    ELSE LET ty == decl.entity.type[1]
             size == unwrap_or(ty.sizeof, 0)
             align == unwrap_or(ty.alignof, 0)
             children == SelectSeq(decl.entity.children, is_field)
         IN IF \E k \in DOMAIN children : extract_field(children[k]) = Err
            THEN Err
            ELSE Ok([name   |-> decl.name,
                     size   |-> size,
                     align  |-> align,
                     fields |-> [k \in DOMAIN children |->
                                    extract_field(children[k])[1]]])

is_enum_constant(child) == child.kind = "EnumConstantDecl"

extract_enum(decl) ==
    IF decl.entity.enum_underlying_type = None THEN Err
    ELSE LET underlying == map_clang_type(decl.entity.enum_underlying_type[1])
             children == SelectSeq(decl.entity.children, is_enum_constant)
         IN Ok([name            |-> decl.name,
                underlying_type |-> unwrap_or(underlying, Prim("I32")),
                variants        |-> [k \in DOMAIN children |->
                    LET value == unwrap_or(children[k].enum_constant_value, <<0, 0>>)
                    IN [name           |-> unwrap_or(children[k].name, ""),
                        signed_value   |-> value[1],
                        unsigned_value |-> value[2]]]])

\* format!("param{}", i), i counted from zero
ParamNames == <<"param0", "param1", "param2", "param3">>

param_name(n) == ParamNames[n + 1]

extract_function(decl) ==
    IF decl.entity.type = None THEN Err
    ELSE LET fn_type == decl.entity.type[1] IN
         IF fn_type.result_type = None THEN Err
         ELSE LET args == unwrap_or(decl.entity.arguments, <<>>)
                  arg_types == unwrap_or(fn_type.argument_types, <<>>)
              IN Ok([name               |-> decl.name,
                     return_type        |->
                         unwrap_or(map_clang_type(fn_type.result_type[1]), Prim("Void")),
                     params             |-> [k \in DOMAIN args |->
                         [name |-> IF args[k].name = None THEN param_name(k - 1)
                                   ELSE args[k].name[1],
                          ty   |-> IF k <= Len(arg_types)
                                   THEN unwrap_or(map_clang_type(arg_types[k]), Prim("Void"))
                                   ELSE Prim("Void")]],
                     calling_convention |->
                         calling_convention_of(fn_type.calling_convention)])

extract_typedef(decl) ==
    IF decl.entity.typedef_underlying_type = None THEN Err
    ELSE Ok([name            |-> decl.name,
             underlying_type |->
                 unwrap_or(map_clang_type(decl.entity.typedef_underlying_type[1]),
                           Prim("Void"))])

\* u64 and i64, scaled to WordBits bits
Word == 2 ^ WordBits
I64_MAX == 2 ^ (WordBits - 1) - 1
I64_MIN == 0 - 2 ^ (WordBits - 1)

\* `val as i64`
as_i64(val) == IF val <= I64_MAX THEN val ELSE val - Word

\* unary minus on i64 overflows for i64::MIN only
neg_overflows(value) ==
    value.tag = "Integer" /\ value.negated /\ as_i64(value.val) = I64_MIN

\* unary minus on i64 in a build without overflow checks
wrapping_neg(x) == IF x = I64_MIN THEN I64_MIN ELSE 0 - x

constant_value(value) ==
    IF value.tag = "Integer"
    THEN IF value.negated
         THEN [tag |-> "Signed", v |-> wrapping_neg(as_i64(value.val))]
         ELSE IF value.val <= I64_MAX
         THEN [tag |-> "Signed", v |-> as_i64(value.val)]
         ELSE [tag |-> "Unsigned", v |-> value.val]
    ELSE [tag |-> "Float", real |-> value.real]

----------------------------------------------------------------------------
(* What libclang reports: types *)

Builtin(kind) == [kind |-> kind, is_const_qualified |-> FALSE]

Const(ty) == [ty EXCEPT !.is_const_qualified = TRUE]

PointerTo(pointee) ==
    [kind |-> "Pointer", is_const_qualified |-> FALSE, pointee_type |-> pointee]

ConstantArrayOf(element, size) ==
    [kind |-> "ConstantArray", is_const_qualified |-> FALSE,
     element_type |-> element, size |-> size]

IncompleteArrayOf(element) ==
    [kind |-> "IncompleteArray", is_const_qualified |-> FALSE, element_type |-> element]

ElaboratedOf(inner) ==
    [kind |-> "Elaborated", is_const_qualified |-> FALSE, elaborated_type |-> inner]

TypedefTo(declaration, canonical) ==
    [kind |-> "Typedef", is_const_qualified |-> FALSE,
     declaration |-> declaration, canonical_type |-> canonical]

DeclaredType(kind, declaration) ==
    [kind |-> kind, is_const_qualified |-> FALSE, declaration |-> declaration]

Prototype(result, arguments, cc) ==
    [kind |-> "FunctionPrototype", is_const_qualified |-> FALSE,
     result_type |-> result, argument_types |-> arguments, calling_convention |-> cc]

NoPrototype(cc) ==
    [kind |-> "FunctionNoPrototype", is_const_qualified |-> FALSE,
     calling_convention |-> cc]

\* Type kinds that map_clang_type has no arm for
UnsupportedKinds == {"Int128", "Vector"}

WellKnownNames ==
    {"int8_t", "__int8", "uint8_t", "int16_t", "__int16", "uint16_t",
     "int32_t", "__int32", "uint32_t", "int64_t", "__int64", "uint64_t",
     "size_t", "uintptr_t", "ssize_t", "intptr_t", "ptrdiff_t"}

CallingConventions == {"Cdecl", "Stdcall", "Fastcall", "Thiscall", "Vectorcall"}

OptionalConventions == {None} \cup {Some(cc) : cc \in CallingConventions}

\* A declaration cursor of a type: absent, unnamed, or named
Declarations(name) == {None, Some([name |-> None]), Some([name |-> Some(name)])}

Prototypes ==
    {Prototype(result, arguments, Some("Cdecl")) :
        result \in {None, Some(Builtin("Int")), Some(Builtin("Int128"))},
        arguments \in {None, Some(<<>>), Some(<<Builtin("Int"), Builtin("UInt")>>),
                       Some(<<Builtin("Int"), Builtin("Int128")>>)}}
    \cup {Prototype(Some(Builtin("Int")), Some(<<Builtin("Int")>>), cc) :
             cc \in OptionalConventions}

LeafTypes ==
    {Builtin(kind) : kind \in PrimitiveKinds \cup UnsupportedKinds}
    \cup {Const(Builtin(kind)) : kind \in {"Void", "CharS", "Int128"}}
    \cup {TypedefTo(Some([name |-> Some(name)]), Builtin("Int")) :
             name \in WellKnownNames \cup {"myint_t"}}
    \cup {TypedefTo(declaration, canonical) :
             declaration \in Declarations(""),
             canonical \in {Builtin("Long"), Builtin("Int128")}}
    \cup {DeclaredType(kind, declaration) :
             kind \in {"Record", "Enum"}, declaration \in Declarations("R")}
    \cup {NoPrototype(cc) : cc \in {None, Some("Cdecl"), Some("Stdcall")}}
    \cup Prototypes

Wrapped(types) ==
    {PointerTo(Some(ty)) : ty \in types}
    \cup {ConstantArrayOf(Some(ty), Some(3)) : ty \in types}
    \cup {IncompleteArrayOf(Some(ty)) : ty \in types}
    \cup {ElaboratedOf(Some(ty)) : ty \in types}
    \cup {PointerTo(None), IncompleteArrayOf(None), ElaboratedOf(None),
          ConstantArrayOf(None, Some(3)), ConstantArrayOf(Some(Builtin("Int")), None)}

RECURSIVE TypesUpTo(_)
TypesUpTo(depth) ==
    IF depth = 0 THEN LeafTypes
    ELSE TypesUpTo(depth - 1) \cup Wrapped(TypesUpTo(depth - 1))

ClangTypes == TypesUpTo(TypeDepth)

----------------------------------------------------------------------------
(* What libclang and sonar report: declarations *)

BaseDir == <<"/", "b">>

FileX == <<"/", "b", "x.h">>
FileDX == <<"/", "b", "d", "x.h">>
FileY == <<"/", "s", "y.h">>
FileZ == <<"/", "b", "z.h">>

Location(file) == Some([file |-> file])

InX == Location(Some(FileX))

Locations ==
    {None, Location(None)}
    \cup {Location(Some(path)) : path \in {FileX, FileDX, FileY, FileZ}}

Field(name, ty) ==
    [kind |-> "FieldDecl", name |-> name, type |-> ty, is_bit_field |-> FALSE,
     bit_field_width |-> None, offset_of_field |-> Ok(0)]

BitField(name, ty, width, offset) ==
    [kind |-> "FieldDecl", name |-> name, type |-> ty, is_bit_field |-> TRUE,
     bit_field_width |-> width, offset_of_field |-> offset]

\* A child of a record that is no field, e.g. a nested record declaration
NestedDecl ==
    [kind |-> "StructDecl", name |-> None, type |-> None, is_bit_field |-> FALSE,
     bit_field_width |-> None, offset_of_field |-> Err]

RecordType(sizeof, alignof) == Some([sizeof |-> sizeof, alignof |-> alignof])

StructDecl(name, location, type, children) ==
    [name |-> name,
     entity |-> [location |-> location, type |-> type, children |-> children]]

EnumConstant(name, value) ==
    [kind |-> "EnumConstantDecl", name |-> name, enum_constant_value |-> value]

EnumDecl(name, location, underlying, children) ==
    [name |-> name,
     entity |-> [location |-> location, enum_underlying_type |-> underlying,
                 children |-> children]]

FunctionType(result, arguments, cc) ==
    Some([result_type |-> result, argument_types |-> arguments,
          calling_convention |-> cc])

FunctionDecl(name, location, type, arguments) ==
    [name |-> name,
     entity |-> [location |-> location, type |-> type, arguments |-> arguments]]

TypedefDecl(name, location, underlying) ==
    [name |-> name,
     entity |-> [location |-> location, typedef_underlying_type |-> underlying]]

Integer(negated, val) == [tag |-> "Integer", negated |-> negated, val |-> val]
Real(val) == [tag |-> "Real", real |-> val]

Definition(name, location, value) ==
    [name |-> name, value |-> value, entity |-> [location |-> location]]

IntField == Field(Some("a"), Some(Builtin("Int")))
Variants == <<EnumConstant(Some("RED"), Some(<<0, 0>>)),
              EnumConstant(Some("BLUE"), Some(<<2, 2>>))>>
Param(name) == [name |-> name]

\* The plain declaration of each kind, at a given place
PlainStruct(name, location) ==
    StructDecl(name, location, RecordType(Ok(4), Ok(4)), <<IntField>>)
PlainEnum(name, location) ==
    EnumDecl(name, location, Some(Builtin("UInt")), Variants)
PlainFunction(name, location) ==
    FunctionDecl(name, location,
                 FunctionType(Some(Builtin("Int")), Some(<<Builtin("Int")>>), Some("Cdecl")),
                 Some(<<Param(Some("x"))>>))
PlainTypedef(name, location) ==
    TypedefDecl(name, location, Some(Builtin("Int")))
PlainDefinition(name, location) ==
    Definition(name, location, Integer(FALSE, 1))

\* The declarations that every translation unit of the model holds, in x.h
Siblings ==
    [structs     |-> <<PlainStruct("S0", InX)>>,
     enums       |-> <<PlainEnum("E0", InX)>>,
     functions   |-> <<PlainFunction("f0", InX)>>,
     typedefs    |-> <<PlainTypedef("T0", InX)>>,
     definitions |-> <<PlainDefinition("K0", InX)>>]

WithStruct(decl) == [Siblings EXCEPT !.structs = <<decl>> \o @]
WithEnum(decl) == [Siblings EXCEPT !.enums = <<decl>> \o @]
WithFunction(decl) == [Siblings EXCEPT !.functions = <<decl>> \o @]
WithTypedef(decl) == [Siblings EXCEPT !.typedefs = <<decl>> \o @]
WithDefinition(decl) == [Siblings EXCEPT !.definitions = <<decl>> \o @]

\* Translation units with one more plain declaration, at any place
ScopeUnits ==
    {WithStruct(PlainStruct("S", location)) : location \in Locations}
    \cup {WithEnum(PlainEnum("E", location)) : location \in Locations}
    \cup {WithFunction(PlainFunction("f", location)) : location \in Locations}
    \cup {WithTypedef(PlainTypedef("T", location)) : location \in Locations}
    \cup {WithDefinition(PlainDefinition("K", location)) : location \in Locations}

Layouts == {Err, Ok(1), Ok(4), Ok(8), Ok(16)}

StructUnits ==
    {WithStruct(StructDecl("S", InX, RecordType(Ok(8), Ok(4)),
                           <<Field(Some("a"), Some(ty))>>)) : ty \in ClangTypes}
    \cup {WithStruct(StructDecl("S", InX, RecordType(sizeof, alignof), <<IntField>>)) :
             sizeof \in Layouts, alignof \in Layouts}
    \cup {WithStruct(StructDecl("S", InX, type, children)) :
             type \in {None, RecordType(Ok(8), Ok(4))},
             children \in {<<>>,
                           <<NestedDecl, IntField>>,
                           <<IntField, Field(None, Some(Builtin("UInt")))>>,
                           <<IntField, Field(Some("b"), None)>>,
                           <<IntField, Field(Some("b"), Some(Builtin("Int128")))>>,
                           <<Field(Some("b"), Some(DeclaredType("Record", Some([name |-> None])))),
                             IntField>>,
                           <<BitField(Some("a"), Some(Builtin("UInt")), Some(3), Ok(0)),
                             BitField(Some("b"), Some(Builtin("UInt")), Some(5), Ok(3))>>,
                           <<BitField(Some("a"), Some(Builtin("UInt")), None, Err),
                             IntField>>}}

EnumUnits ==
    {WithEnum(EnumDecl("E", InX, underlying, children)) :
        underlying \in {None, Some(Builtin("Int")), Some(Builtin("UInt")),
                        Some(Builtin("Int128"))},
        children \in {<<>>, Variants,
                      <<EnumConstant(None, None), EnumConstant(Some("N"), Some(<<-1, 7>>))>>}}

FunctionUnits ==
    {WithFunction(FunctionDecl("f", InX,
                               FunctionType(Some(Builtin("Int")), Some(<<ty>>), Some("Cdecl")),
                               Some(<<Param(Some("x"))>>))) : ty \in ClangTypes}
    \cup {WithFunction(FunctionDecl("f", InX,
                                    FunctionType(result, Some(<<>>), cc), Some(<<>>))) :
             result \in {None, Some(Builtin("Void")), Some(Builtin("Int128")),
                         Some(PointerTo(Some(Const(Builtin("CharS")))))},
             cc \in OptionalConventions}
    \cup {WithFunction(FunctionDecl("f", InX, type, arguments)) :
             type \in {None,
                       FunctionType(Some(Builtin("Int")), None, None),
                       FunctionType(Some(Builtin("Int")), Some(<<Builtin("Int")>>),
                                    Some("Stdcall")),
                       FunctionType(Some(Builtin("Int")),
                                    Some(<<Builtin("Int"), Builtin("Int128")>>),
                                    Some("Fastcall"))},
             arguments \in {None, Some(<<Param(None)>>),
                            Some(<<Param(Some("x")), Param(None)>>)}}

TypedefUnits ==
    {WithTypedef(TypedefDecl("T", InX, Some(ty))) : ty \in ClangTypes}
    \cup {WithTypedef(TypedefDecl("T", InX, None))}

DefinitionUnits ==
    {WithDefinition(Definition("K", InX, Integer(negated, val))) :
        negated \in BOOLEAN, val \in 0..(Word - 1)}
    \cup {WithDefinition(Definition("K", InX, Real("1.5")))}

\* struct S0 next to a function S0, as struct stat and stat() in <sys/stat.h>
ClashUnits == {WithFunction(PlainFunction("S0", InX))}

\* Translation units with one more declaration of any shape, in x.h
ShapeUnits == StructUnits \cup EnumUnits \cup FunctionUnits \cup TypedefUnits
              \cup DefinitionUnits \cup ClashUnits

ScopedPartition(headers, traverse) ==
    [namespace |-> NsA, library |-> LibA, headers |-> headers,
     traverse |-> traverse, clang_args |-> <<>>]

\* headers = ["x.h"], no traverse list
PlainPartition == ScopedPartition(<<<<"x.h">>>>, <<>>)

ScopedPartitions ==
    {ScopedPartition(headers, traverse) :
        headers \in {<<<<"x.h">>>>, <<FileY>>},
        traverse \in {<<>>, <<<<"x.h">>>>, <<<<"d", "x.h">>>>, <<FileY>>,
                      <<<<"z.h">>, FileY>>}}

\* The translation units the model parses for a partition
UnitsOf(partition) ==
    IF partition = PlainPartition THEN ScopeUnits \cup ShapeUnits ELSE ScopeUnits

NoArg == <<>>
NoUnit == <<>>
NoPartition == <<>>

NoDeclarations ==
    [structs |-> <<>>, enums |-> <<>>, functions |-> <<>>, typedefs |-> <<>>,
     constants |-> <<>>]

----------------------------------------------------------------------------
(* The state machine *)

InitDriver ==
    /\ pc = "load_config"
    /\ status = "running"
    /\ failure = NoFailure
    /\ cfg = <<>>
    /\ i = 0
    /\ partitions = <<>>
    /\ registry = EmptyMap
    /\ winmd_bytes = <<>>
    /\ outfile = OldFile
    /\ call = 1
    /\ prev = NoPrev

\* No run of the wrapper model, no call of the Clang model
IdleWrapper ==
    /\ temp_dir = <<>>
    /\ files = <<>>
    /\ runs = <<>>

IdleClang ==
    /\ AVAILABLE = TRUE
    /\ calls = <<>>

InitPipeline ==
    /\ InitDriver
    /\ xpc = "idle"
    /\ xarg = NoArg
    /\ tu = NoUnit
    /\ part = NoPartition

Init ==
    /\ InitPipeline
    /\ IdleWrapper
    /\ IdleClang

Running(at) == status = "running" /\ pc = at

\* `?` on an Err, or a panic: the function is left and its locals are dropped.
Fail(how, kind, at) ==
    /\ status' = how
    /\ failure' = [kind |-> kind, at |-> at]
    /\ cfg' = <<>>
    /\ i' = 0
    /\ partitions' = <<>>
    /\ registry' = EmptyMap
    /\ winmd_bytes' = <<>>
    /\ UNCHANGED <<pc, outfile, call, prev>>

\* The configuration a call loads: any file for the first call, the same file
\* again for a repeated call.
Loadable == IF call = 1 THEN Configs ELSE {prev.cfg}

\* lib.rs 47-48
load_config ==
    /\ UNCHANGED <<xvars, wvars, cvars>>
    /\ Running("load_config")
    /\ \/ \E c \in Loadable :
            /\ cfg' = <<c>>
            /\ pc' = "clang"
            /\ UNCHANGED <<status, failure, i, partitions, registry,
                           winmd_bytes, outfile, call, prev>>
       \/ Fail("err", "config", 0)

AfterExtract(n) == IF n < Len(cfg[1].partition) THEN "extract" ELSE "registry"

\* lib.rs 94-96
clang_new ==
    /\ UNCHANGED <<xvars, wvars, cvars>>
    /\ Running("clang")
    /\ \/ /\ pc' = AfterExtract(0)
          /\ i' = 1
          /\ UNCHANGED <<status, failure, cfg, partitions, registry,
                         winmd_bytes, outfile, call, prev>>
       \/ Fail("err", "clang", 0)

\* Variant of extract_step: a translation unit that fails to parse is logged
\* and skipped, the way extract_partition treats a failing declaration.
extract_step_skipping ==
    /\ UNCHANGED <<xvars, wvars, cvars>>
    /\ Running("extract")
    /\ \/ /\ partitions' = Append(partitions, extract_partition(cfg[1].partition[i]))
          /\ i' = i + 1
          /\ pc' = AfterExtract(i)
          /\ UNCHANGED <<status, failure, cfg, registry, winmd_bytes,
                         outfile, call, prev>>
       \/ /\ failure' = [kind |-> "parse", at |-> i]
          /\ i' = i + 1
          /\ pc' = AfterExtract(i)
          /\ UNCHANGED <<status, cfg, partitions, registry, winmd_bytes,
                         outfile, call, prev>>

\* lib.rs 100-109, one iteration
extract_step ==
    /\ UNCHANGED <<xvars, wvars, cvars>>
    /\ Running("extract")
    /\ \/ /\ partitions' = Append(partitions, extract_partition(cfg[1].partition[i]))
          /\ i' = i + 1
          /\ pc' = AfterExtract(i)
          /\ UNCHANGED <<status, failure, cfg, registry, winmd_bytes,
                         outfile, call, prev>>
       \/ Fail("err", "parse", i)

AfterSeed(n) == IF n < Len(cfg[1].type_import) THEN "seed" ELSE "dedup"

\* lib.rs 112
registry_step ==
    /\ UNCHANGED <<xvars, wvars, cvars>>
    /\ Running("registry")
    /\ registry' = build_type_registry(partitions, cfg[1].namespace_overrides)
    /\ i' = 1
    /\ pc' = AfterSeed(0)
    /\ UNCHANGED <<status, failure, cfg, partitions, winmd_bytes,
                   outfile, call, prev>>

\* lib.rs 119-122, one iteration
seed_step ==
    /\ UNCHANGED <<xvars, wvars, cvars>>
    /\ Running("seed")
    /\ LET ti == cfg[1].type_import[i] IN
       \/ \E types \in Enumerations(ti.winmd) :
            /\ registry' = seed_registry_from_winmd(registry, types, ti.namespace)
            /\ i' = i + 1
            /\ pc' = AfterSeed(i)
            /\ UNCHANGED <<status, failure, cfg, partitions, winmd_bytes,
                           outfile, call, prev>>
       \/ Fail("panic", "import", i)

\* Variant of dedup_step: the registry is built again from the partitions
\* that the pass leaves.
dedup_step_registering ==
    /\ UNCHANGED <<xvars, wvars, cvars>>
    /\ Running("dedup")
    /\ partitions' = dedup_typedefs(partitions, registry)
    /\ registry' = build_type_registry(partitions', cfg[1].namespace_overrides)
    /\ pc' = "emit"
    /\ UNCHANGED <<status, failure, cfg, i, winmd_bytes, outfile, call, prev>>

\* lib.rs 131-136
dedup_step ==
    /\ UNCHANGED <<xvars, wvars, cvars>>
    /\ Running("dedup")
    /\ partitions' = dedup_typedefs(partitions, registry)
    /\ pc' = "emit"
    /\ UNCHANGED <<status, failure, cfg, i, registry, winmd_bytes,
                   outfile, call, prev>>

\* Variant of emit_step: a referenced name that the registry does not hold
\* is an error.
emit_step_resolving ==
    /\ UNCHANGED <<xvars, wvars, cvars>>
    /\ Running("emit")
    /\ \/ /\ \A k \in DOMAIN partitions : \A j \in DOMAIN partitions[k].functions :
                \A a \in DOMAIN partitions[k].functions[j].params :
                    contains(registry, partitions[k].functions[j].params[a])
          /\ winmd_bytes' = <<emit_winmd(cfg[1].output.name, partitions, registry)>>
          /\ pc' = "open"
          /\ UNCHANGED <<status, failure, cfg, i, partitions, registry,
                         outfile, call, prev>>
       \/ Fail("err", "emit", 0)

\* lib.rs 139-143
emit_step ==
    /\ UNCHANGED <<xvars, wvars, cvars>>
    /\ Running("emit")
    /\ \/ /\ winmd_bytes' = <<emit_winmd(cfg[1].output.name, partitions, registry)>>
          /\ pc' = "open"
          /\ UNCHANGED <<status, failure, cfg, i, partitions, registry,
                         outfile, call, prev>>
       \/ Fail("err", "emit", 0)

\* lib.rs 58, std::fs::write: File::create truncates the file at the path
write_open ==
    /\ UNCHANGED <<xvars, wvars, cvars>>
    /\ Running("open")
    /\ \/ /\ outfile' = [gen |-> "new", data |-> winmd_bytes[1], written |-> 0]
          /\ pc' = "write"
          /\ UNCHANGED <<status, failure, cfg, i, partitions, registry,
                         winmd_bytes, call, prev>>
       \/ Fail("err", "open", 0)

\* lib.rs 58, std::fs::write: write_all, one write(2) per step
write_chunk ==
    /\ UNCHANGED <<xvars, wvars, cvars>>
    /\ Running("write")
    /\ outfile.written < WriteChunks
    /\ \/ /\ outfile' = [outfile EXCEPT !.written = @ + 1]
          /\ UNCHANGED <<pc, status, failure, cfg, i, partitions, registry,
                         winmd_bytes, call, prev>>
       \/ Fail("err", "write", outfile.written)

\* lib.rs 61-67
run_returns ==
    /\ UNCHANGED <<xvars, wvars, cvars>>
    /\ Running("write")
    /\ outfile.written = WriteChunks
    /\ status' = "ok"
    /\ pc' = "done"
    /\ cfg' = <<>>
    /\ i' = 0
    /\ partitions' = <<>>
    /\ registry' = EmptyMap
    /\ winmd_bytes' = <<>>
    /\ UNCHANGED <<failure, outfile, call, prev>>

\* The process is killed while run is inside std::fs::write.
crash ==
    /\ UNCHANGED <<xvars, wvars, cvars>>
    /\ status = "running"
    /\ pc \in {"open", "write"}
    /\ Fail("crashed", "crash", 0)

\* generate is called again on the same inputs after it returned the bytes.
generate_again ==
    /\ UNCHANGED <<xvars, wvars, cvars>>
    /\ call = 1
    /\ Running("open")
    /\ prev' = [cfg |-> cfg[1], registry |-> registry,
                partitions |-> partitions, bytes |-> winmd_bytes[1]]
    /\ call' = 2
    /\ pc' = "load_config"
    /\ cfg' = <<>>
    /\ i' = 0
    /\ partitions' = <<>>
    /\ registry' = EmptyMap
    /\ winmd_bytes' = <<>>
    /\ UNCHANGED <<status, failure, outfile>>

Next ==
    \/ load_config
    \/ clang_new
    \/ extract_step
    \/ registry_step
    \/ seed_step
    \/ dedup_step
    \/ emit_step
    \/ write_open
    \/ write_chunk
    \/ run_returns
    \/ crash

Spec == Init /\ [][Next]_vars

NextTwoCalls == Next \/ generate_again

SpecTwoCalls == Init /\ [][NextTwoCalls]_vars

----------------------------------------------------------------------------
(* extract_partition, statement by statement *)

InitExtract ==
    /\ InitDriver
    /\ xpc = "parse"
    /\ xarg \in {[partition |-> partition, base_dir |-> BaseDir] :
                    partition \in ScopedPartitions}
    /\ tu = NoUnit
    /\ part = NoDeclarations
    /\ IdleWrapper
    /\ IdleClang

\* the closure `in_scope`, applied to what sonar found
in_scope(decls) ==
    SelectSeq(decls, LAMBDA decl :
        should_emit(decl.entity, traverse_files(xarg.partition), xarg.base_dir))

\* extract.rs 23-40
parse_unit ==
    /\ xpc = "parse"
    /\ \/ \E unit \in UnitsOf(xarg.partition) :
            /\ tu' = unit
            /\ xpc' = "structs"
            /\ UNCHANGED <<xarg, part>>
       \/ /\ xpc' = "err"
          /\ UNCHANGED <<xarg, tu, part>>
    /\ UNCHANGED <<dvars, wvars, cvars>>

\* extract.rs 45-57
extract_structs ==
    /\ xpc = "structs"
    /\ LET found == SelectSeq(in_scope(tu.structs),
                              LAMBDA decl : extract_struct(decl) # Err)
       IN part' = [part EXCEPT !.structs =
                      [k \in DOMAIN found |-> extract_struct(found[k])[1]]]
    /\ xpc' = "enums"
    /\ UNCHANGED <<xarg, tu>>
    /\ UNCHANGED <<dvars, wvars, cvars>>

\* extract.rs 60-72
extract_enums ==
    /\ xpc = "enums"
    /\ LET found == SelectSeq(in_scope(tu.enums),
                              LAMBDA decl : extract_enum(decl) # Err)
       IN part' = [part EXCEPT !.enums =
                      [k \in DOMAIN found |-> extract_enum(found[k])[1]]]
    /\ xpc' = "functions"
    /\ UNCHANGED <<xarg, tu>>
    /\ UNCHANGED <<dvars, wvars, cvars>>

\* extract.rs 75-87
extract_functions ==
    /\ xpc = "functions"
    /\ LET found == SelectSeq(in_scope(tu.functions),
                              LAMBDA decl : extract_function(decl) # Err)
       IN part' = [part EXCEPT !.functions =
                      [k \in DOMAIN found |-> extract_function(found[k])[1]]]
    /\ xpc' = "typedefs"
    /\ UNCHANGED <<xarg, tu>>
    /\ UNCHANGED <<dvars, wvars, cvars>>

\* extract.rs 90-102
extract_typedefs ==
    /\ xpc = "typedefs"
    /\ LET found == SelectSeq(in_scope(tu.typedefs),
                              LAMBDA decl : extract_typedef(decl) # Err)
       IN part' = [part EXCEPT !.typedefs =
                      [k \in DOMAIN found |-> extract_typedef(found[k])[1]]]
    /\ xpc' = "constants"
    /\ UNCHANGED <<xarg, tu>>
    /\ UNCHANGED <<dvars, wvars, cvars>>

\* extract.rs 105-127. The negation of i64::MIN panics in a build with
\* overflow checks and wraps in a build without them.
extract_constants ==
    /\ xpc = "constants"
    /\ LET found == SelectSeq(tu.definitions, LAMBDA def :
                        should_emit_by_location(def.entity,
                                                traverse_files(xarg.partition),
                                                xarg.base_dir))
       IN \/ /\ part' = [part EXCEPT !.constants =
                            [k \in DOMAIN found |->
                                [name  |-> found[k].name,
                                 value |-> constant_value(found[k].value)]]]
             /\ xpc' = "return"
          \/ /\ \E k \in DOMAIN found : neg_overflows(found[k].value)
             /\ part' = NoDeclarations
             /\ xpc' = "panic"
    /\ UNCHANGED <<xarg, tu>>
    /\ UNCHANGED <<dvars, wvars, cvars>>

\* extract.rs 139-148
extract_returns ==
    /\ xpc = "return"
    /\ part' = [namespace |-> xarg.partition.namespace,
                library   |-> xarg.partition.library,
                structs   |-> part.structs,
                enums     |-> part.enums,
                functions |-> part.functions,
                typedefs  |-> part.typedefs,
                constants |-> part.constants]
    /\ xpc' = "ok"
    /\ UNCHANGED <<xarg, tu>>
    /\ UNCHANGED <<dvars, wvars, cvars>>

NextExtract ==
    \/ parse_unit
    \/ extract_structs
    \/ extract_enums
    \/ extract_functions
    \/ extract_typedefs
    \/ extract_constants
    \/ extract_returns

SpecExtract == InitExtract /\ [][NextExtract]_vars

----------------------------------------------------------------------------
(* PartitionConfig::wrapper_header and the parse that follows it, for runs *)
(* of the tool that share the temp directory of one machine                *)

Runs == {"r1", "r2"}

TempDirs == {<<"/", "tmp">>, <<"/", "var", "tmp">>}

NsAB == <<"A", ".", "B">>
NsA_B == <<"A", "_", "B">>

HeaderLists ==
    {<<<<"x.h">>>>, <<<<"x.h">>, FileY>>, <<FileY, <<"x.h">>>>}

WrappedPartitions ==
    {[namespace |-> namespace, library |-> LibA, headers |-> headers,
      traverse |-> <<>>, clang_args |-> <<>>] :
        namespace \in {NsAB, NsA_B}, headers \in HeaderLists}

\* str::replace of one character
replace(s, from, to) == [k \in DOMAIN s |-> IF s[k] = from THEN to ELSE s[k]]

\* config.rs 72-77; the file name is the tuple of the pieces that format! joins
wrapper_path(namespace) ==
    LET wrapper_dir == join(temp_dir, <<"bindscrape_wrappers">>)
        safe_name   == replace(namespace, ".", "_")
    IN join(wrapper_dir, safe_name \o <<"_wrapper.c">>)

\* Variant of wrapper_content: the headers are included as configured.
wrapper_content_as_configured(headers, base_dir) ==
    [k \in DOMAIN headers |-> <<"#include", headers[k]>>]

\* config.rs 79-87: one line #include "abs" per header
wrapper_content(headers, base_dir) ==
    [k \in DOMAIN headers |->
        LET h   == headers[k]
            abs == IF is_absolute(h) THEN h ELSE join(base_dir, h)
        IN <<"#include", abs>>]

NoFiles == [path \in {} |-> None]

NotStarted ==
    [at |-> "next", k |-> 0, partition |-> None, header_path |-> None,
     unit |-> None]

InitWrapper ==
    /\ InitPipeline
    /\ IdleClang
    /\ temp_dir \in TempDirs
    /\ files = NoFiles
    /\ runs = [r \in Runs |-> NotStarted]

\* std::fs: what a path holds
read(path) == IF path \in DOMAIN files THEN files[path] ELSE None

store(path, content) ==
    [p \in DOMAIN files \cup {path} |-> IF p = path THEN Some(content) ELSE files[p]]

\* extract.rs 23, config.rs 67-77: the next partition of the run's
\* configuration; a single header is returned joined to base_dir
wrapper_header(r) ==
    /\ runs[r].at = "next"
    /\ runs[r].k < MaxWrapped
    /\ \E partition \in WrappedPartitions :
          runs' = [runs EXCEPT
                      ![r].partition = Some(partition),
                      ![r].header_path =
                          IF Len(partition.headers) = 1
                          THEN Some(join(BaseDir, partition.headers[1]))
                          ELSE None,
                      ![r].at = IF Len(partition.headers) = 1 THEN "parse"
                                ELSE "create"]
    /\ UNCHANGED <<temp_dir, files>>
    /\ UNCHANGED <<dvars, xvars, cvars>>

\* config.rs 88, std::fs::write: File::create makes the file or truncates it
wrapper_create(r) ==
    /\ runs[r].at = "create"
    /\ files' = store(wrapper_path(runs[r].partition[1].namespace), <<>>)
    /\ runs' = [runs EXCEPT ![r].at = "write"]
    /\ UNCHANGED temp_dir
    /\ UNCHANGED <<dvars, xvars, cvars>>

\* config.rs 88-89, std::fs::write: write_all of the content, then the path
\* is returned
wrapper_write(r) ==
    /\ runs[r].at = "write"
    /\ LET wrapper == wrapper_path(runs[r].partition[1].namespace) IN
          /\ files' = store(wrapper,
                            wrapper_content(runs[r].partition[1].headers, BaseDir))
          /\ runs' = [runs EXCEPT ![r].header_path = Some(wrapper),
                                  ![r].at = "parse"]
    /\ UNCHANGED temp_dir
    /\ UNCHANGED <<dvars, xvars, cvars>>

\* config.rs 73, 88: expect() on an I/O error
wrapper_panics(r) ==
    /\ runs[r].at \in {"create", "write"}
    /\ runs' = [runs EXCEPT ![r].at = "panic"]
    /\ UNCHANGED <<temp_dir, files>>
    /\ UNCHANGED <<dvars, xvars, cvars>>

\* extract.rs 26-37: the parser reads the file at header_path; of a wrapper
\* file the unit keeps the text that was read
parse(r) ==
    /\ runs[r].at = "parse"
    /\ \/ runs' = [runs EXCEPT
                      ![r].unit = Some([path |-> runs[r].header_path[1],
                                        text |-> read(runs[r].header_path[1])]),
                      ![r].k = @ + 1,
                      ![r].at = "next"]
       \/ runs' = [runs EXCEPT ![r].at = "err"]
    /\ UNCHANGED <<temp_dir, files>>
    /\ UNCHANGED <<dvars, xvars, cvars>>

\* lib.rs 100-109: the loop over cfg.partition ends
run_ends(r) ==
    /\ runs[r].at = "next"
    /\ runs' = [runs EXCEPT ![r].at = "done"]
    /\ UNCHANGED <<temp_dir, files>>
    /\ UNCHANGED <<dvars, xvars, cvars>>

NextWrapper ==
    \E r \in Runs :
        \/ wrapper_header(r)
        \/ wrapper_create(r)
        \/ wrapper_write(r)
        \/ wrapper_panics(r)
        \/ parse(r)
        \/ run_ends(r)

SpecWrapper == InitWrapper /\ [][NextWrapper]_vars

----------------------------------------------------------------------------
(* generate_from_config called from the threads of one process: the Clang  *)
(* instance that each call makes, uses and drops                           *)

Threads == {"t1", "t2"}

NoCall ==
    [at |-> "idle", round |-> 0, n |-> 0, k |-> 0, clang |-> FALSE,
     result |-> "none"]

InitClang ==
    /\ InitPipeline
    /\ IdleWrapper
    /\ AVAILABLE = TRUE
    /\ calls = [t \in Threads |-> NoCall]

\* lib.rs 86-91: a thread calls generate_from_config with a configuration
\* of n partitions
generate_from_config(t) ==
    /\ calls[t].at \in {"idle", "returned"}
    /\ calls[t].round < MaxRounds
    /\ \E n \in 0..MaxPartitions :
          calls' = [calls EXCEPT ![t] =
                       [at |-> "clang", round |-> calls[t].round + 1, n |-> n,
                        k |-> 0, clang |-> FALSE, result |-> "none"]]
    /\ UNCHANGED AVAILABLE
    /\ UNCHANGED <<dvars, xvars, wvars>>

\* lib.rs 94-96: Clang::new() gives the instance when the process has none
\* and Err otherwise, which `?` returns as "failed to initialize libclang"
Clang_new(t) ==
    /\ calls[t].at = "clang"
    /\ IF AVAILABLE
       THEN /\ AVAILABLE' = FALSE
            /\ calls' = [calls EXCEPT ![t].clang = TRUE, ![t].at = "extract"]
       ELSE /\ AVAILABLE' = AVAILABLE
            /\ calls' = [calls EXCEPT ![t].result = "failed to initialize libclang",
                                      ![t].at = "returned"]
    /\ UNCHANGED <<dvars, xvars, wvars>>

\* lib.rs 100-109: one more partition is extracted with the index of the
\* instance
extract_with_index(t) ==
    /\ calls[t].at = "extract"
    /\ calls[t].k < calls[t].n
    /\ calls' = [calls EXCEPT ![t].k = @ + 1]
    /\ UNCHANGED AVAILABLE
    /\ UNCHANGED <<dvars, xvars, wvars>>

\* Variant of extract_leaves: the instance is not dropped when the call is
\* left.
extract_leaves_holding(t) ==
    /\ calls[t].at = "extract"
    /\ calls[t].k < calls[t].n
    /\ \E how \in {"err", "panic"} :
          calls' = [calls EXCEPT ![t].clang = FALSE, ![t].result = how,
                                 ![t].at = "returned"]
    /\ AVAILABLE' = AVAILABLE
    /\ UNCHANGED <<dvars, xvars, wvars>>

\* lib.rs 101-107: extract_partition returns Err, which `?` returns, or it
\* panics and the stack unwinds; either way `clang` is dropped
extract_leaves(t) ==
    /\ calls[t].at = "extract"
    /\ calls[t].k < calls[t].n
    /\ \E how \in {"err", "panic"} :
          calls' = [calls EXCEPT ![t].clang = FALSE, ![t].result = how,
                                 ![t].at = "returned"]
    /\ AVAILABLE' = TRUE
    /\ UNCHANGED <<dvars, xvars, wvars>>

\* lib.rs 112-136: registry, seeding and deduplication, with `clang` alive
after_extraction(t) ==
    /\ calls[t].at = "extract"
    /\ calls[t].k = calls[t].n
    /\ calls' = [calls EXCEPT ![t].at = "emit"]
    /\ UNCHANGED AVAILABLE
    /\ UNCHANGED <<dvars, xvars, wvars>>

\* lib.rs 139-144: emit_winmd returns Ok or Err; generate_from_config
\* returns and `clang` is dropped
call_returns(t) ==
    /\ calls[t].at = "emit"
    /\ \E how \in {"ok", "err"} :
          calls' = [calls EXCEPT ![t].clang = FALSE, ![t].result = how,
                                 ![t].at = "returned"]
    /\ AVAILABLE' = TRUE
    /\ UNCHANGED <<dvars, xvars, wvars>>

NextClang ==
    \E t \in Threads :
        \/ generate_from_config(t)
        \/ Clang_new(t)
        \/ extract_with_index(t)
        \/ extract_leaves(t)
        \/ after_extraction(t)
        \/ call_returns(t)

SpecClang == InitClang /\ [][NextClang]_vars

----------------------------------------------------------------------------
(* Properties *)

Complete(file) == file.written = WriteChunks

BeforeWrite == {"load_config", "clang", "extract", "registry", "seed", "dedup", "emit", "open"}

\* C1: at every moment the output path holds either the complete old file
\* or the complete new file; a failed or interrupted write never leaves a
\* truncated file in place of the old one.
C1_OutputOldOrCompleteNew ==
    \/ outfile = OldFile
    \/ outfile.gen = "new" /\ Complete(outfile)

\* C2: the output file is touched only after config loading, extraction of
\* every partition, seeding from every external .winmd and emission have all
\* succeeded; when the config cannot be loaded, a translation unit fails to
\* parse or an external .winmd cannot be read, run fails, produces no bytes,
\* extracts no later partition and leaves the output file as it was.
C2_FailureLeavesOutputUntouched ==
    /\ pc \in BeforeWrite => outfile = OldFile
    /\ failure.kind \in {"config", "clang", "parse", "import", "emit"} =>
          /\ status \in {"err", "panic"}
          /\ winmd_bytes = <<>>
          /\ partitions = <<>>
          /\ outfile = OldFile

\* The second partition fails to parse after the first one was extracted.
C2_Witness ==
    /\ status = "err"
    /\ failure = [kind |-> "parse", at |-> 2]
    /\ outfile = OldFile

\* The configuration in use, and what the front-end reports for partition k.
PartIdx == DOMAIN cfg[1].partition
ConfigNs(k) == cfg[1].partition[k].namespace
Declared(k) == Ast(cfg[1].partition[k].headers[1])
Overridden == DOMAIN cfg[1].namespace_overrides

NamesOf(decls) == {decls[j].name : j \in DOMAIN decls}
TypeNamesOf(ast) == NamesOf(ast.structs) \cup NamesOf(ast.enums) \cup NamesOf(ast.typedefs)
Declarers(n) == {k \in PartIdx : n \in TypeNamesOf(Declared(k))}
FirstDeclarer(n) == CHOOSE k \in Declarers(n) : \A j \in Declarers(n) : k <= j

RegistryBuilt == status = "running" /\ pc \in {"seed", "dedup", "emit", "open", "write"}
Seeded == status = "running" /\ pc \in {"dedup", "emit", "open", "write"}
Deduplicated == status = "running" /\ pc \in {"emit", "open", "write"}

\* C3: once the registry is built, every name that some partition declares
\* as a struct, enum or typedef and that is not overridden is mapped to the
\* namespace of the first partition, in configuration order, declaring it.
C3_FirstWriterWins ==
    RegistryBuilt =>
        \A k \in PartIdx : \A n \in TypeNamesOf(Declared(k)) \ Overridden :
            /\ n \in DOMAIN registry
            /\ registry[n] = ConfigNs(FirstDeclarer(n))

\* Two partitions of different namespaces declare U, the later one in vain.
C3_Witness ==
    /\ RegistryBuilt
    /\ \E j, k \in PartIdx :
          /\ j < k
          /\ ConfigNs(j) # ConfigNs(k)
          /\ "U" \in TypeNamesOf(Declared(j)) \cap TypeNamesOf(Declared(k))
          /\ registry["U"] = ConfigNs(j)

References(p, n) == \E j \in DOMAIN p.functions : \E a \in DOMAIN p.functions[j].params :
                        p.functions[j].params[a] = n

\* C4: for an override N -> NS of a name that partitions declare, every
\* partition referencing N resolves it to NS, and after the registry and
\* deduplication passes only a partition whose namespace is NS still holds a
\* definition of N, be it a struct, an enum or a typedef.
C4_OnlyOverrideNamespaceDefines ==
    Deduplicated =>
        \A n \in Overridden : Declarers(n) # {} =>
            \A k \in DOMAIN partitions :
                /\ References(partitions[k], n) =>
                      namespace_for(registry, n, partitions[k].namespace)
                          = cfg[1].namespace_overrides[n]
                /\ n \in TypeNamesOf(partitions[k]) =>
                      partitions[k].namespace = cfg[1].namespace_overrides[n]

\* C5: an override N -> NS makes the finished registry map N to NS wherever
\* N comes from, a partition or an external .winmd.
C5_OverrideRegardlessOfOrigin ==
    Seeded =>
        \A n \in Overridden \cap DOMAIN registry :
            registry[n] = cfg[1].namespace_overrides[n]

\* C6: seeding runs on the registry built from the local partitions (every
\* locally declared name is registered before the first import is read) and
\* leaves the mapping of every registered name as it was.
C6_SeedingFillsFreeSlotsOnly ==
    [][(pc = "seed" /\ status = "running") =>
          /\ \A k \in PartIdx : TypeNamesOf(Declared(k)) \subseteq DOMAIN registry
          /\ status' = "running" =>
                \A n \in DOMAIN registry :
                    n \in DOMAIN registry' /\ registry'[n] = registry[n]]_vars

\* Both imports were read: U is local, T came from the first import, and the
\* second import, which also holds a T, did not replace it.
C6_Witness ==
    /\ Seeded
    /\ Len(cfg[1].type_import) = 2
    /\ cfg[1].type_import[1].winmd = "ext1.winmd"
    /\ cfg[1].type_import[2].winmd = "ext2.winmd"
    /\ Declarers("U") # {}
    /\ Declarers("T") = {}
    /\ "T" \in DOMAIN registry
    /\ registry["T"] \in {NsEa, NsEb}

TypedefDeclarers(n) == {k \in PartIdx : n \in NamesOf(Declared(k).typedefs)}

HoldsTypedef(k, n) == n \in NamesOf(partitions[k].typedefs)

\* C7 as stated: of any two partitions A before B with different namespaces
\* that declare the same typedef, not overridden, A keeps it and B drops it.
C7_EarlierOfAnyPairKeeps ==
    Deduplicated =>
        \A n \in {"T", "U"} \ Overridden :
            \A a, b \in TypedefDeclarers(n) :
                (a < b /\ ConfigNs(a) # ConfigNs(b)) =>
                    HoldsTypedef(a, n) /\ ~HoldsTypedef(b, n)

\* C7, amended: when A is the first partition, in configuration order, that
\* declares the name (as a struct, enum or typedef) and B is a later one with
\* a different namespace declaring it as a typedef, A keeps its typedef and B
\* holds none; and a partition keeps a typedef exactly when the registry's
\* namespace for the name equals the partition's namespace.
C7_FirstDeclarerKeeps ==
    Deduplicated =>
        /\ \A n \in {"T", "U"} \ Overridden :
              \A a, b \in TypedefDeclarers(n) :
                  (a = FirstDeclarer(n) /\ a < b /\ ConfigNs(a) # ConfigNs(b)) =>
                      HoldsTypedef(a, n) /\ ~HoldsTypedef(b, n)
        /\ \A k \in PartIdx : \A n \in NamesOf(Declared(k).typedefs) :
              HoldsTypedef(k, n) <=>
                  namespace_for(registry, n, ConfigNs(k)) = ConfigNs(k)

\* The first declarer of U kept it and a later partition of another
\* namespace dropped its copy.
C7_Witness ==
    /\ Deduplicated
    /\ "U" \notin Overridden
    /\ \E a, b \in TypedefDeclarers("U") :
          /\ a = FirstDeclarer("U") /\ a < b /\ ConfigNs(a) # ConfigNs(b)
          /\ HoldsTypedef(a, "U") /\ ~HoldsTypedef(b, "U")

Emitted == status = "running" /\ winmd_bytes # <<>>
Assembly == winmd_bytes[1]

DeclsOfKind(ast, kind) ==
    CASE kind = "struct"  -> ast.structs
      [] kind = "enum"    -> ast.enums
      [] kind = "typedef" -> ast.typedefs

\* C8: every TypeDef and every Apis member emitted for a declaration whose
\* name is not overridden lives under the namespace of a partition whose
\* extraction yielded that declaration.
C8_NamespacePlacement ==
    Emitted =>
        \A r \in Assembly :
            IF r.kind = "apis"
            THEN /\ \A m \in r.methods : m.name \notin Overridden =>
                       \E k \in PartIdx :
                           /\ ConfigNs(k) = r.namespace
                           /\ m.name \in NamesOf(Declared(k).functions)
                 /\ \A c \in r.fields : c \notin Overridden =>
                       \E k \in PartIdx :
                           /\ ConfigNs(k) = r.namespace
                           /\ c \in NamesOf(Declared(k).constants)
            ELSE r.name \notin Overridden =>
                     \E k \in PartIdx :
                         /\ ConfigNs(k) = r.namespace
                         /\ r.name \in NamesOf(DeclsOfKind(Declared(k), r.kind))

\* An assembly with a struct and a typedef in two different namespaces.
C8_Witness ==
    /\ Emitted
    /\ \E r1, r2 \in Assembly :
          /\ r1.kind = "struct" /\ r2.kind = "typedef"
          /\ r1.namespace # r2.namespace
          /\ r1.name \notin Overridden /\ r2.name \notin Overridden

LookupType(ns, n) == \E r \in Assembly : r.namespace = ns /\ r.name = n

LookupMethod(ns, n) ==
    \E r \in Assembly :
        r.namespace = ns /\ r.name = "Apis" /\ \E m \in r.methods : m.name = n

LookupField(ns, n) ==
    \E r \in Assembly : r.namespace = ns /\ r.name = "Apis" /\ n \in r.fields

\* C9 as stated: every struct, enum, typedef, function and constant that the
\* extraction of a partition yielded is found in the assembly under
\* (partition namespace, name).
C9_RoundTripEveryDeclaration ==
    Emitted =>
        \A k \in PartIdx :
            /\ \A n \in TypeNamesOf(Declared(k)) : LookupType(ConfigNs(k), n)
            /\ \A n \in NamesOf(Declared(k).functions) : LookupMethod(ConfigNs(k), n)
            /\ \A n \in NamesOf(Declared(k).constants) : LookupField(ConfigNs(k), n)

\* C9, amended: the lookup under (partition namespace, name) succeeds for
\* every struct, enum, function and constant the extraction yielded, and for
\* every typedef whose registry namespace is the namespace of its partition,
\* that is, every typedef the deduplication pass kept.
C9_RoundTripKeptDeclarations ==
    Emitted =>
        \A k \in PartIdx :
            /\ \A n \in NamesOf(Declared(k).structs) \cup NamesOf(Declared(k).enums) :
                  LookupType(ConfigNs(k), n)
            /\ \A n \in NamesOf(Declared(k).typedefs) :
                  namespace_for(registry, n, ConfigNs(k)) = ConfigNs(k) =>
                      LookupType(ConfigNs(k), n)
            /\ \A n \in NamesOf(Declared(k).functions) : LookupMethod(ConfigNs(k), n)
            /\ \A n \in NamesOf(Declared(k).constants) : LookupField(ConfigNs(k), n)

\* A typedef that was kept is found under its partition's namespace while a
\* later partition's copy of another typedef was dropped.
C9_Witness ==
    /\ Emitted
    /\ \E j, k \in PartIdx :
          /\ "T" \in NamesOf(Declared(k).typedefs)
          /\ namespace_for(registry, "T", ConfigNs(k)) = ConfigNs(k)
          /\ LookupType(ConfigNs(k), "T")
          /\ "U" \in NamesOf(Declared(j).typedefs)
          /\ ~LookupType(ConfigNs(j), "U")

\* C10: a repeated call of generate on the same inputs ends with the same
\* registry, the same deduplicated partitions and the same bytes, whatever
\* the order in which the types of an external .winmd are enumerated.
C10_Deterministic ==
    (call = 2 /\ Running("open")) =>
        /\ registry = prev.registry
        /\ partitions = prev.partitions
        /\ winmd_bytes[1] = prev.bytes

----------------------------------------------------------------------------
(* Properties of extract_partition *)

Extracted == xpc = "ok"

\* The traverse list in force and the file of a declaration
TraverseList ==
    IF Len(xarg.partition.traverse) > 0
    THEN xarg.partition.traverse ELSE xarg.partition.headers

Resolved(entry) == IF entry[1] = "/" THEN entry ELSE xarg.base_dir \o entry

IsPathSuffix(entry, path) ==
    \E n \in 0..Len(path) : SubSeq(path, n + 1, Len(path)) = entry

HasFile(entity) == entity.location # None /\ entity.location[1].file # None

FileOf(entity) == entity.location[1].file[1]

InTraverse(entity) ==
    /\ HasFile(entity)
    /\ \E k \in DOMAIN TraverseList :
          \/ FileOf(entity) = Resolved(TraverseList[k])
          \/ IsPathSuffix(TraverseList[k], FileOf(entity))

Present(decl, defs) == decl.name \in NamesOf(defs)

\* The definition extracted for a declaration that is present
DefOf(decl, defs) == defs[CHOOSE j \in DOMAIN defs : defs[j].name = decl.name]

Mappable(ty) == ty # None /\ map_clang_type(ty[1]) # Err

Unmappable(ty) == ty # None /\ map_clang_type(ty[1]) = Err

FieldsOf(decl) == SelectSeq(decl.entity.children, LAMBDA c : c.kind = "FieldDecl")

\* The declarations whose own extraction does not fail
StructExtracts(decl) ==
    /\ decl.entity.type # None
    /\ \A k \in DOMAIN FieldsOf(decl) : Mappable(FieldsOf(decl)[k].type)

EnumExtracts(decl) == decl.entity.enum_underlying_type # None

FunctionExtracts(decl) ==
    decl.entity.type # None /\ decl.entity.type[1].result_type # None

TypedefExtracts(decl) == decl.entity.typedef_underlying_type # None

\* C11 as stated: a struct, enum, function, typedef or constant is in the
\* extracted Partition if and only if its location has a file whose path
\* equals an entry of the traverse list (the configured one, else the
\* headers) resolved against base_dir, or ends with that entry.
C11_EmittedIffInTraverse ==
    Extracted =>
        /\ \A k \in DOMAIN tu.structs :
              Present(tu.structs[k], part.structs) <=> InTraverse(tu.structs[k].entity)
        /\ \A k \in DOMAIN tu.enums :
              Present(tu.enums[k], part.enums) <=> InTraverse(tu.enums[k].entity)
        /\ \A k \in DOMAIN tu.functions :
              Present(tu.functions[k], part.functions)
                  <=> InTraverse(tu.functions[k].entity)
        /\ \A k \in DOMAIN tu.typedefs :
              Present(tu.typedefs[k], part.typedefs)
                  <=> InTraverse(tu.typedefs[k].entity)
        /\ \A k \in DOMAIN tu.definitions :
              Present(tu.definitions[k], part.constants)
                  <=> InTraverse(tu.definitions[k].entity)

\* C11, amended: a declaration is in the extracted Partition if and only if
\* its location passes the traverse list and its own extraction does not
\* fail (a record with a type whose fields all map, an enum with an
\* underlying type, a function with a type and a result type, a typedef with
\* an underlying type; a constant always extracts).
C11_EmittedIffInTraverseAndExtractable ==
    Extracted =>
        /\ \A k \in DOMAIN tu.structs :
              Present(tu.structs[k], part.structs)
                  <=> (InTraverse(tu.structs[k].entity) /\ StructExtracts(tu.structs[k]))
        /\ \A k \in DOMAIN tu.enums :
              Present(tu.enums[k], part.enums)
                  <=> (InTraverse(tu.enums[k].entity) /\ EnumExtracts(tu.enums[k]))
        /\ \A k \in DOMAIN tu.functions :
              Present(tu.functions[k], part.functions)
                  <=> (InTraverse(tu.functions[k].entity)
                       /\ FunctionExtracts(tu.functions[k]))
        /\ \A k \in DOMAIN tu.typedefs :
              Present(tu.typedefs[k], part.typedefs)
                  <=> (InTraverse(tu.typedefs[k].entity)
                       /\ TypedefExtracts(tu.typedefs[k]))
        /\ \A k \in DOMAIN tu.definitions :
              Present(tu.definitions[k], part.constants)
                  <=> InTraverse(tu.definitions[k].entity)

\* With traverse = ["x.h"], the struct of /b/d/x.h is extracted although
\* the entry resolves to /b/x.h, and so is the struct of /b/x.h.
C11_Witness ==
    /\ Extracted
    /\ xarg.partition.traverse = <<<<"x.h">>>>
    /\ \E k \in DOMAIN tu.structs :
          /\ HasFile(tu.structs[k].entity)
          /\ FileOf(tu.structs[k].entity) = FileDX
          /\ Present(tu.structs[k], part.structs)
    /\ Len(part.structs) = 2

HasUnmappableField(decl) ==
    \E k \in DOMAIN FieldsOf(decl) : Unmappable(FieldsOf(decl)[k].type)

HasUnmappableParam(decl) ==
    /\ decl.entity.type # None
    /\ decl.entity.type[1].argument_types # None
    /\ \E k \in DOMAIN decl.entity.type[1].argument_types[1] :
          map_clang_type(decl.entity.type[1].argument_types[1][k]) = Err

HasUnmappableTarget(decl) == Unmappable(decl.entity.typedef_underlying_type)

\* C12: when the type of a struct field, of a function parameter or of a
\* typedef cannot be mapped, extraction still returns a Partition, the
\* declaration holding that type is absent from it, and every other
\* declaration in scope is extracted.
C12_UnsupportedTypeSkipsDeclaration ==
    /\ xpc = "panic" =>
          /\ \A k \in DOMAIN tu.structs : ~HasUnmappableField(tu.structs[k])
          /\ \A k \in DOMAIN tu.functions : ~HasUnmappableParam(tu.functions[k])
          /\ \A k \in DOMAIN tu.typedefs : ~HasUnmappableTarget(tu.typedefs[k])
    /\ Extracted =>
          /\ \A k \in DOMAIN tu.structs :
                LET decl == tu.structs[k] IN
                IF HasUnmappableField(decl) THEN ~Present(decl, part.structs)
                ELSE (InTraverse(decl.entity) /\ StructExtracts(decl))
                         => Present(decl, part.structs)
          /\ \A k \in DOMAIN tu.functions :
                LET decl == tu.functions[k] IN
                IF HasUnmappableParam(decl) THEN ~Present(decl, part.functions)
                ELSE (InTraverse(decl.entity) /\ FunctionExtracts(decl))
                         => Present(decl, part.functions)
          /\ \A k \in DOMAIN tu.typedefs :
                LET decl == tu.typedefs[k] IN
                IF HasUnmappableTarget(decl) THEN ~Present(decl, part.typedefs)
                ELSE (InTraverse(decl.entity) /\ TypedefExtracts(decl))
                         => Present(decl, part.typedefs)
          /\ \A k \in DOMAIN tu.enums :
                (InTraverse(tu.enums[k].entity) /\ EnumExtracts(tu.enums[k]))
                    => Present(tu.enums[k], part.enums)
          /\ \A k \in DOMAIN tu.definitions :
                InTraverse(tu.definitions[k].entity)
                    => Present(tu.definitions[k], part.constants)

\* The ConstantValue that the sign rule gives an integer literal
SignRule(value) ==
    IF value.negated THEN [tag |-> "Signed", v |-> 0 - value.val]
    ELSE IF value.val <= 2 ^ (WordBits - 1) - 1
    THEN [tag |-> "Signed", v |-> value.val]
    ELSE [tag |-> "Unsigned", v |-> value.val]

\* C13: the conversion of an integer macro literal never aborts, and the
\* constant extracted for magnitude n and negation flag b is Signed(-n) when
\* b is set, else Signed(n) when n fits i64, else Unsigned(n).
C13_ConstantSignRule ==
    /\ xpc # "panic"
    /\ Extracted =>
          \A k \in DOMAIN tu.definitions :
              LET def == tu.definitions[k] IN
              (def.value.tag = "Integer" /\ InTraverse(def.entity)) =>
                  /\ Present(def, part.constants)
                  /\ DefOf(def, part.constants).value = SignRule(def.value)

\* The mapping table of the type mapper, row by row: None where the table
\* has no row for the type or for one of its components.
WellKnownAlias ==
    [name \in WellKnownNames |->
        CASE name \in {"int8_t", "__int8"}                 -> "I8"
          [] name \in {"uint8_t"}                          -> "U8"
          [] name \in {"int16_t", "__int16"}               -> "I16"
          [] name \in {"uint16_t"}                         -> "U16"
          [] name \in {"int32_t", "__int32"}               -> "I32"
          [] name \in {"uint32_t"}                         -> "U32"
          [] name \in {"int64_t", "__int64"}               -> "I64"
          [] name \in {"uint64_t"}                         -> "U64"
          [] name \in {"size_t", "uintptr_t"}              -> "USize"
          [] name \in {"ssize_t", "intptr_t", "ptrdiff_t"} -> "ISize"]

FixedWidth ==
    [kind \in PrimitiveKinds |->
        CASE kind \in {"Void", "Bool"}     -> kind
          [] kind \in {"CharS", "SChar"}   -> "I8"
          [] kind \in {"CharU", "UChar"}   -> "U8"
          [] kind = "Short"                -> "I16"
          [] kind = "UShort"               -> "U16"
          [] kind \in {"Int", "Long"}      -> "I32"
          [] kind \in {"UInt", "ULong"}    -> "U32"
          [] kind = "LongLong"             -> "I64"
          [] kind = "ULongLong"            -> "U64"
          [] kind = "Float"                -> "F32"
          [] kind = "Double"               -> "F64"]

NamedDeclaration(ty) == ty.declaration # None /\ ty.declaration[1].name \notin {None, Some("")}

TableConvention(cc) ==
    IF cc # None /\ cc[1] \in {"Cdecl", "Stdcall", "Fastcall"} THEN cc[1] ELSE "Cdecl"

RECURSIVE TableRow(_)
TableRow(ty) ==
    CASE ty.kind \in PrimitiveKinds -> Some([t |-> FixedWidth[ty.kind]])
      [] ty.kind = "Pointer" /\ ty.pointee_type # None ->
            LET of == TableRow(ty.pointee_type[1]) IN
            IF of = None THEN None
            ELSE Some([t |-> "Ptr", pointee |-> of[1],
                       is_const |-> ty.pointee_type[1].is_const_qualified])
      [] ty.kind = "ConstantArray" /\ ty.element_type # None /\ ty.size # None ->
            LET of == TableRow(ty.element_type[1]) IN
            IF of = None THEN None
            ELSE Some([t |-> "Array", element |-> of[1], len |-> ty.size[1]])
      [] ty.kind = "IncompleteArray" /\ ty.element_type # None ->
            LET of == TableRow(ty.element_type[1]) IN
            IF of = None THEN None
            ELSE Some([t |-> "Ptr", pointee |-> of[1], is_const |-> FALSE])
      [] ty.kind = "Elaborated" /\ ty.elaborated_type # None ->
            TableRow(ty.elaborated_type[1])
      [] ty.kind = "Typedef" /\ NamedDeclaration(ty) ->
            LET name == ty.declaration[1].name[1] IN
            IF name \in WellKnownNames THEN Some([t |-> WellKnownAlias[name]])
            ELSE Some([t |-> "Named", name |-> name])
      [] ty.kind \in {"Record", "Enum"} /\ NamedDeclaration(ty) ->
            Some([t |-> "Named", name |-> ty.declaration[1].name[1]])
      [] ty.kind = "FunctionPrototype" /\ ty.result_type # None
                                       /\ ty.argument_types # None ->
            LET ret == TableRow(ty.result_type[1])
                args == ty.argument_types[1]
            IN IF ret = None \/ \E k \in DOMAIN args : TableRow(args[k]) = None
               THEN None
               ELSE Some([t |-> "FnPtr", return_type |-> ret[1],
                          params |-> [k \in DOMAIN args |-> TableRow(args[k])[1]],
                          calling_convention |-> TableConvention(ty.calling_convention)])
      [] ty.kind = "FunctionNoPrototype" ->
            Some([t |-> "FnPtr", return_type |-> [t |-> "Void"], params |-> <<>>,
                  calling_convention |-> "Cdecl"])
      [] OTHER -> None

InTable(ty) == ty # None /\ TableRow(ty[1]) # None

StructsDone == xpc \in {"enums", "functions", "typedefs", "constants", "return", "ok"}

IsFunctionKind(ty) == ty.kind \in {"FunctionPrototype", "FunctionNoPrototype"}

PointsToFunction(ty) ==
    /\ ty.kind = "Pointer"
    /\ ty.pointee_type # None
    /\ IsFunctionKind(ty.pointee_type[1])

FunctionTypeOf(ty) == IF IsFunctionKind(ty) THEN ty ELSE ty.pointee_type[1]

FnPtrOf(ty, ctype) == IF IsFunctionKind(ty) THEN ctype ELSE ctype.pointee

Keeps(cc, mapped) ==
    IF cc # None /\ cc[1] \in {"Cdecl", "Stdcall", "Fastcall"}
    THEN mapped = cc[1] ELSE mapped = "Cdecl"

\* C15 as stated: an extracted function, and a function-pointer type mapped
\* for a struct field or a typedef, keeps the convention Cdecl, Stdcall or
\* Fastcall that the AST reports, and has Cdecl for any other or no
\* convention.
C15_ConventionKeptEverywhere ==
    Extracted =>
        /\ \A k \in DOMAIN tu.functions :
              LET decl == tu.functions[k] IN
              Present(decl, part.functions) =>
                  Keeps(decl.entity.type[1].calling_convention,
                        DefOf(decl, part.functions).calling_convention)
        /\ \A k \in DOMAIN tu.typedefs :
              LET decl == tu.typedefs[k]
                  ty == decl.entity.typedef_underlying_type
              IN (Present(decl, part.typedefs) /\ Mappable(ty)
                    /\ (IsFunctionKind(ty[1]) \/ PointsToFunction(ty[1]))) =>
                     Keeps(FunctionTypeOf(ty[1]).calling_convention,
                           FnPtrOf(ty[1], DefOf(decl, part.typedefs).underlying_type)
                               .calling_convention)

\* C15, amended: an extracted function, and a function-pointer type with a
\* prototype, keeps the convention Cdecl, Stdcall or Fastcall that the AST
\* reports and has Cdecl for any other or no convention; a function type
\* without a prototype always maps to Cdecl, whatever its convention.
C15_ConventionKeptWithPrototype ==
    Extracted =>
        /\ \A k \in DOMAIN tu.functions :
              LET decl == tu.functions[k] IN
              Present(decl, part.functions) =>
                  Keeps(decl.entity.type[1].calling_convention,
                        DefOf(decl, part.functions).calling_convention)
        /\ \A k \in DOMAIN tu.typedefs :
              LET decl == tu.typedefs[k]
                  ty == decl.entity.typedef_underlying_type
              IN (Present(decl, part.typedefs) /\ Mappable(ty)
                    /\ (IsFunctionKind(ty[1]) \/ PointsToFunction(ty[1]))) =>
                     LET fn == FunctionTypeOf(ty[1])
                         mapped == FnPtrOf(ty[1], DefOf(decl, part.typedefs).underlying_type)
                                       .calling_convention
                     IN IF fn.kind = "FunctionPrototype"
                        THEN Keeps(fn.calling_convention, mapped)
                        ELSE mapped = "Cdecl"

\* A function declared __stdcall was extracted as Stdcall.
C15_Witness ==
    /\ Extracted
    /\ \E k \in DOMAIN tu.functions :
          /\ tu.functions[k].entity.type # None
          /\ tu.functions[k].entity.type[1].calling_convention = Some("Stdcall")
          /\ Present(tu.functions[k], part.functions)
          /\ DefOf(tu.functions[k], part.functions).calling_convention = "Stdcall"

\* C16: a struct extracted from a record for which the AST reports
\* sizeof = S and alignof = A has size S and align A, and the ClassLayout
\* written for it has ClassSize S and PackingSize A.
C16_StructLayout ==
    StructsDone =>
        \A k \in DOMAIN tu.structs :
            LET decl == tu.structs[k] IN
            (Present(decl, part.structs)
               /\ decl.entity.type[1].sizeof # Err
               /\ decl.entity.type[1].alignof # Err) =>
                /\ DefOf(decl, part.structs).size = decl.entity.type[1].sizeof[1]
                /\ DefOf(decl, part.structs).align = decl.entity.type[1].alignof[1]
                /\ class_layout(DefOf(decl, part.structs))
                      = [ClassSize   |-> decl.entity.type[1].sizeof[1],
                         PackingSize |-> decl.entity.type[1].alignof[1]]

\* A record of 16 bytes aligned to 4 was extracted.
C16_Witness ==
    /\ Extracted
    /\ \E k \in DOMAIN tu.structs :
          /\ tu.structs[k].entity.type = RecordType(Ok(16), Ok(4))
          /\ Present(tu.structs[k], part.structs)
          /\ DefOf(tu.structs[k], part.structs).size = 16

----------------------------------------------------------------------------
(* Properties of the generated assembly *)

ApisOf(ns) == {r \in Assembly : r.kind = "apis" /\ r.namespace = ns}

\* C17: every function that the extraction of a partition yielded is a
\* method of the Apis type of the partition's namespace, with an ImplMap
\* whose import scope is the library of that partition, also when the
\* partitions of the assembly name different libraries.
C17_ImplMapScopeIsPartitionLibrary ==
    Emitted =>
        \A k \in PartIdx : \A n \in NamesOf(Declared(k).functions) :
            \E r \in ApisOf(ConfigNs(k)) : \E m \in r.methods :
                /\ m.name = n
                /\ m.scope = cfg[1].partition[k].library

\* Two partitions with different libraries, each with its function under its
\* own library.
C17_Witness ==
    /\ Emitted
    /\ \E j, k \in PartIdx :
          /\ cfg[1].partition[j].library = LibA
          /\ cfg[1].partition[k].library = LibB
          /\ \E r \in ApisOf(ConfigNs(j)) : \E m \in r.methods : m.scope = LibA
          /\ \E r \in ApisOf(ConfigNs(k)) : \E m \in r.methods : m.scope = LibB

DelegateTypedefs(k) ==
    {td \in Range(Declared(k).typedefs) : is_delegate(td.underlying_type)}

\* C18: a function-pointer typedef that some partition declares yields
\* exactly one TypeDef in the assembly, however many partitions see it; its
\* base is the multicast-delegate marker and its only method is Invoke, with
\* the parameters and the return type of the function pointer.
C18_OneDelegatePerTypedef ==
    Emitted =>
        \A k \in PartIdx : \A td \in DelegateTypedefs(k) :
            /\ typedefs_written(partitions, td.name) = 1
            /\ \E r \in Assembly :
                  /\ r.name = td.name
                  /\ r.kind = "typedef"
                  /\ r.base = "MulticastDelegate"
                  /\ r.methods =
                        {[name        |-> "Invoke",
                          params      |-> td.underlying_type.pointee.params,
                          return_type |-> td.underlying_type.pointee.return_type]}

Imported(ns, n) ==
    \E j \in DOMAIN cfg[1].type_import :
        LET ti == cfg[1].type_import[j] IN
        /\ [namespace |-> ns, name |-> n] \in ExternalWinmd(ti.winmd)
        /\ starts_with(ns, ti.namespace)

Unresolved(p) ==
    {n \in UNION {Range(p.functions[j].params) : j \in DOMAIN p.functions} :
        ~contains(registry, n)}

----------------------------------------------------------------------------
(* Properties of extract_partition, continued *)

AllNames ==
    NamesOf(part.structs) \cup NamesOf(part.enums) \cup NamesOf(part.functions)
    \cup NamesOf(part.typedefs) \cup NamesOf(part.constants)

\* C23: in the Partition that extract_partition returns no name occurs twice
\* among the structs, enums, functions, typedefs and constants taken
\* together.
C23_NamesUniqueInPartition ==
    Extracted =>
        Len(part.structs) + Len(part.enums) + Len(part.functions)
            + Len(part.typedefs) + Len(part.constants) = Cardinality(AllNames)

\* Every component that the kind of the type has is reported by the AST
RECURSIVE AllReported(_)
AllReported(ty) ==
    CASE ty.kind = "Pointer" -> ty.pointee_type # None /\ AllReported(ty.pointee_type[1])
      [] ty.kind \in {"ConstantArray", "IncompleteArray"} ->
            ty.element_type # None /\ AllReported(ty.element_type[1])
      [] ty.kind = "Elaborated" ->
            ty.elaborated_type # None /\ AllReported(ty.elaborated_type[1])
      [] ty.kind = "FunctionPrototype" ->
            /\ ty.result_type # None
            /\ AllReported(ty.result_type[1])
            /\ ty.argument_types # None
            /\ \A k \in DOMAIN ty.argument_types[1] : AllReported(ty.argument_types[1][k])
      [] OTHER -> TRUE

\* The type transitively contains an unsupported kind or an anonymous record
\* or enum that no named typedef hides
RECURSIVE Untranslatable(_)
Untranslatable(ty) ==
    CASE ty.kind \in UnsupportedKinds -> TRUE
      [] ty.kind \in {"Record", "Enum"} ->
            ty.declaration = None \/ ty.declaration[1].name = None
      [] ty.kind = "Typedef" ->
            IF NamedDeclaration(ty) THEN FALSE ELSE Untranslatable(ty.canonical_type)
      [] ty.kind = "Pointer" -> Untranslatable(ty.pointee_type[1])
      [] ty.kind \in {"ConstantArray", "IncompleteArray"} ->
            Untranslatable(ty.element_type[1])
      [] ty.kind = "Elaborated" -> Untranslatable(ty.elaborated_type[1])
      [] ty.kind = "FunctionPrototype" ->
            \/ Untranslatable(ty.result_type[1])
            \/ \E k \in DOMAIN ty.argument_types[1] :
                  Untranslatable(ty.argument_types[1][k])
      [] OTHER -> FALSE

\* Void occurs in a CType; void occurs in an AST type
RECURSIVE HasVoid(_)
HasVoid(ctype) ==
    CASE ctype.t = "Void"  -> TRUE
      [] ctype.t = "Ptr"   -> HasVoid(ctype.pointee)
      [] ctype.t = "Array" -> HasVoid(ctype.element)
      [] ctype.t = "FnPtr" ->
            \/ HasVoid(ctype.return_type)
            \/ \E k \in DOMAIN ctype.params : HasVoid(ctype.params[k])
      [] OTHER -> FALSE

RECURSIVE SaysVoid(_)
SaysVoid(ty) ==
    CASE ty.kind \in {"Void", "FunctionNoPrototype"} -> TRUE
      [] ty.kind = "Typedef" ->
            IF NamedDeclaration(ty) THEN FALSE ELSE SaysVoid(ty.canonical_type)
      [] ty.kind = "Pointer" -> SaysVoid(ty.pointee_type[1])
      [] ty.kind \in {"ConstantArray", "IncompleteArray"} -> SaysVoid(ty.element_type[1])
      [] ty.kind = "Elaborated" -> SaysVoid(ty.elaborated_type[1])
      [] ty.kind = "FunctionPrototype" ->
            \/ SaysVoid(ty.result_type[1])
            \/ \E k \in DOMAIN ty.argument_types[1] : SaysVoid(ty.argument_types[1][k])
      [] OTHER -> FALSE

WellFormed(decl) ==
    /\ decl.entity.type # None
    /\ \A k \in DOMAIN FieldsOf(decl) :
          /\ FieldsOf(decl)[k].type # None
          /\ AllReported(FieldsOf(decl)[k].type[1])

\* C24: for an AST type whose components are all reported, map_clang_type
\* fails exactly when the type transitively contains an unsupported kind or
\* an anonymous record or enum not hidden behind a named typedef (a struct
\* with a field of that type is skipped, any other is extracted); and when
\* it succeeds the result holds Void only where the AST type says void.
C24_MappingFailsIffComponentFails ==
    Extracted =>
        \A k \in DOMAIN tu.structs :
            LET decl == tu.structs[k] IN
            (InTraverse(decl.entity) /\ WellFormed(decl)) =>
                /\ Present(decl, part.structs)
                      <=> \A j \in DOMAIN FieldsOf(decl) :
                              ~Untranslatable(FieldsOf(decl)[j].type[1])
                /\ Present(decl, part.structs) =>
                      \A j \in DOMAIN FieldsOf(decl) :
                          HasVoid(DefOf(decl, part.structs).fields[j].ty)
                              => SaysVoid(FieldsOf(decl)[j].type[1])

\* A struct whose field is a function prototype with an __int128 parameter
\* was skipped, its sibling extracted.
C24_Witness ==
    /\ Extracted
    /\ \E k \in DOMAIN tu.structs :
          /\ WellFormed(tu.structs[k])
          /\ Len(FieldsOf(tu.structs[k])) = 1
          /\ FieldsOf(tu.structs[k])[1].type[1].kind = "FunctionPrototype"
          /\ Untranslatable(FieldsOf(tu.structs[k])[1].type[1])
          /\ ~Present(tu.structs[k], part.structs)
    /\ Len(part.structs) = 1

ConstantsOf(decl) ==
    SelectSeq(decl.entity.children, LAMBDA c : c.kind = "EnumConstantDecl")

\* C25: an enum in scope for which the AST reports no underlying type is
\* extracted with underlying_type I32 and with its variants in declaration
\* order, each with the signed and unsigned value the AST reported.
C25_EnumWithoutUnderlyingTypeIsI32 ==
    Extracted =>
        \A k \in DOMAIN tu.enums :
            LET decl == tu.enums[k] IN
            (InTraverse(decl.entity) /\ decl.entity.enum_underlying_type = None) =>
                /\ Present(decl, part.enums)
                /\ DefOf(decl, part.enums).underlying_type = [t |-> "I32"]
                /\ Len(DefOf(decl, part.enums).variants) = Len(ConstantsOf(decl))
                /\ \A j \in DOMAIN ConstantsOf(decl) :
                      ConstantsOf(decl)[j].enum_constant_value # None =>
                          /\ DefOf(decl, part.enums).variants[j].signed_value
                                = ConstantsOf(decl)[j].enum_constant_value[1][1]
                          /\ DefOf(decl, part.enums).variants[j].unsigned_value
                                = ConstantsOf(decl)[j].enum_constant_value[1][2]

\* C27: the fields of an extracted struct are its FieldDecl children in
\* declaration order; a field that is no bitfield has neither
\* bitfield_width nor bitfield_offset, and a bitfield for which the AST
\* reports width and offset has exactly these two values.
C27_BitfieldsVerbatim ==
    StructsDone =>
        \A k \in DOMAIN tu.structs :
            LET decl == tu.structs[k] IN
            Present(decl, part.structs) =>
                /\ Len(DefOf(decl, part.structs).fields) = Len(FieldsOf(decl))
                /\ \A j \in DOMAIN FieldsOf(decl) :
                      LET child == FieldsOf(decl)[j]
                          field == DefOf(decl, part.structs).fields[j]
                      IN /\ child.name # None => field.name = child.name[1]
                         /\ ~child.is_bit_field =>
                               /\ field.bitfield_width = None
                               /\ field.bitfield_offset = None
                         /\ (child.is_bit_field /\ child.bit_field_width # None
                               /\ child.offset_of_field # Err) =>
                               /\ field.bitfield_width = Some(child.bit_field_width[1])
                               /\ field.bitfield_offset = Some(child.offset_of_field[1])

\* unsigned a : 3; unsigned b : 5; was extracted with widths 3 and 5 at
\* offsets 0 and 3.
C27_Witness ==
    /\ Extracted
    /\ \E k \in DOMAIN part.structs :
          /\ Len(part.structs[k].fields) = 2
          /\ part.structs[k].fields[1].bitfield_width = Some(3)
          /\ part.structs[k].fields[1].bitfield_offset = Some(0)
          /\ part.structs[k].fields[2].bitfield_width = Some(5)
          /\ part.structs[k].fields[2].bitfield_offset = Some(3)

SynthesizedName(n) ==
    CASE n = 0 -> "param0" [] n = 1 -> "param1" [] n = 2 -> "param2" [] n = 3 -> "param3"

\* C28: an extracted function has one parameter per declared parameter of the
\* declaration, in order, each with the type the mapping table gives for the
\* type at its position, named as declared or, when the declaration gives
\* no name, paramN with N counted from zero.
C28_ParametersInOrder ==
    Extracted =>
        \A k \in DOMAIN tu.functions :
            LET decl == tu.functions[k] IN
            Present(decl, part.functions) =>
                LET def == DefOf(decl, part.functions)
                    types == IF decl.entity.type[1].argument_types = None THEN <<>>
                             ELSE decl.entity.type[1].argument_types[1]
                    args == IF decl.entity.arguments = None THEN <<>>
                            ELSE decl.entity.arguments[1]
                IN /\ Len(def.params) = Len(args)
                   /\ \A j \in DOMAIN args :
                         /\ def.params[j].name =
                               IF args[j].name = None THEN SynthesizedName(j - 1)
                               ELSE args[j].name[1]
                         /\ j <= Len(types)
                         /\ InTable(Some(types[j]))
                         /\ def.params[j].ty = TableRow(types[j])[1]

----------------------------------------------------------------------------
(* Properties of the pipeline, continued *)

Rank(at) ==
    CASE at = "load_config" -> 0
      [] at = "clang"       -> 1
      [] at = "extract"     -> 2
      [] at = "registry"    -> 3
      [] at = "seed"        -> 4
      [] at = "dedup"       -> 5
      [] at = "emit"        -> 6
      [] at = "open"        -> 7
      [] at = "write"       -> 8
      [] at = "done"        -> 9

\* C26: while a run goes on, its steps follow the order extract (partition
\* by partition, in configuration order), build registry, seed (import by
\* import, in configuration order), deduplicate, emit; the registry is built
\* only when every partition is extracted, changes only while it is built
\* and seeded, and is left as it is by deduplication and emission; the
\* partitions change only by extraction and deduplication.
C26_PipelineOrder ==
    [][(status = "running" /\ status' = "running") =>
          /\ Rank(pc') >= Rank(pc)
          /\ pc = "extract" =>
                /\ Len(partitions') = Len(partitions) + 1
                /\ SubSeq(partitions', 1, Len(partitions)) = partitions
                /\ partitions'[Len(partitions')].namespace
                      = cfg[1].partition[Len(partitions')].namespace
          /\ pc = "registry" => Len(partitions) = Len(cfg[1].partition)
          /\ pc = "seed" =>
                /\ Len(partitions) = Len(cfg[1].partition)
                /\ i \in DOMAIN cfg[1].type_import
                /\ i' = i + 1
          /\ pc' = "dedup" =>
                (IF pc = "seed" THEN i ELSE 0) = Len(cfg[1].type_import)
          /\ registry' # registry => pc \in {"registry", "seed"}
          /\ partitions' # partitions => pc \in {"extract", "dedup"}
          /\ pc \in {"dedup", "emit"} => registry' = registry]_vars

\* A run with two partitions and two imports reached the emitter with a
\* seeded name in the registry and a typedef removed by deduplication.
C26_Witness ==
    /\ Emitted
    /\ Len(cfg[1].partition) = 2
    /\ Len(cfg[1].type_import) = 2
    /\ \E n \in DOMAIN registry : Declarers(n) = {}
    /\ \E k \in PartIdx : Len(partitions[k].typedefs) < Len(Declared(k).typedefs)

\* C29: after the registry is built and the typedefs are deduplicated,
\* for every name that a partition declares, some partition of the
\* namespace the registry holds for the name has a struct, enum or typedef
\* of that name.
C29_NoDanglingResolution ==
    Deduplicated =>
        \A n \in DOMAIN registry : Declarers(n) # {} =>
            \E k \in DOMAIN partitions :
                /\ partitions[k].namespace = registry[n]
                /\ n \in TypeNamesOf(partitions[k])

----------------------------------------------------------------------------
(* Properties of the Clang instance *)

Holders == {t \in Threads : calls[t].clang}

\* C22: at most one call holds a Clang instance and the process allows a
\* new one exactly when no call holds one; a call holds its instance from
\* Clang::new until it returns, extracting its partitions one after the
\* other, and holds none once it has returned, with Ok or with an error;
\* Clang::new gives the instance when no call holds one, and when another
\* call holds one it fails with the initialization error and leaves the
\* holder as it is.
C22_SingleClangInstance ==
    [][/\ Cardinality(Holders) <= 1
       /\ Cardinality(Holders') <= 1
       /\ AVAILABLE <=> Holders = {}
       /\ AVAILABLE' <=> Holders' = {}
       /\ \A t \in Threads :
             /\ calls'[t].clang <=> calls'[t].at \in {"extract", "emit"}
             /\ (calls'[t].clang /\ ~calls[t].clang) => calls[t].at = "clang"
             /\ (calls[t].clang /\ calls'[t].clang) =>
                   /\ calls'[t].round = calls[t].round
                   /\ calls'[t].k \in {calls[t].k, calls[t].k + 1}
             /\ (calls[t].at = "clang" /\ calls'[t] # calls[t]) =>
                   IF Holders = {}
                   THEN calls'[t].clang /\ calls'[t].k = 0
                   ELSE /\ calls'[t].result = "failed to initialize libclang"
                        /\ calls'[t].at = "returned"
                        /\ Holders' = Holders]_vars

\* A thread holds the instance in its second call and has extracted a
\* partition with it, and the other thread's call failed in Clang::new.
C22_Witness ==
    \E t, u \in Threads :
        /\ calls[t].clang
        /\ calls[t].round = 2
        /\ calls[t].k >= 1
        /\ calls[u].result = "failed to initialize libclang"

----------------------------------------------------------------------------
(* Properties of the wrapper file *)

Multi(r) == runs[r].partition # None /\ Len(runs[r].partition[1].headers) # 1

\* wrapper_header returns to run r in this step
Returns(r) == runs[r].at # "parse" /\ runs'[r].at = "parse"

ResolvedHeader(h) == IF h[1] = "/" THEN h ELSE BaseDir \o h

Includes(headers) == [k \in DOMAIN headers |-> <<"#include", ResolvedHeader(headers[k])>>]

C30_WrapperFileIntegrity ==
    \A r \in Runs :
        (runs[r].at = "next" /\ runs[r].unit # None /\ Multi(r)) =>
            runs[r].unit[1].text = Some(Includes(runs[r].partition[1].headers))

====
